---- MODULE Spec2Model ----
(***************************************************************************)
(* A model of the macOS glyph rasterizer font context                      *)
(* (gfx/wr/wr_glyph_rasterizer/src/platform/macos/font.rs): the base font  *)
(* table cg_fonts, the sized/varied CoreText font cache ct_fonts, the two  *)
(* pooled CoreGraphics surfaces of GraphicsContext, the variation-axis     *)
(* handling, the glyph metrics and the font smoothing probe.               *)
(*                                                                         *)
(* Lengths and matrix coefficients are integers in 1/64 (U units make one  *)
(* pixel, or the coefficient 1.0), fine enough for the subpixel offsets    *)
(* and the scales of the model to be exact, so that floor and ceil round.  *)
(* An Option is a sequence: None is <<>> and Some(x) is <<x>>.             *)
(***************************************************************************)
EXTENDS Integers, Sequences, FiniteSets, TLC

VARIABLES
    cg_fonts,          \* FontContext.cg_fonts: FontKey -> CGFont
    ct_fonts,          \* FontContext.ct_fonts: (FontKey, FontSize, variations) -> CTFont
    graphics_context,  \* FontContext.graphics_context: the two pooled surfaces
    requested,         \* per category, the largest width and height a get_context
                       \* call on its own (GetContext) has asked of the pool
    ret,               \* the last call: its name, its arguments and what it returned
    probe,             \* FONT_SMOOTHING_MODE: the two probe renders, the mode the
                       \* smoothing probe returned and the state of its initialization
    threads            \* per thread, where it stands in reading FONT_SMOOTHING_MODE
                       \* and the values it has read

vars == <<cg_fonts, ct_fonts, graphics_context, requested, ret, probe, threads>>

----------------------------------------------------------------------------
(* Bounds of the model. *)

\* Pixels of a probe surface that are compared (the code's surfaces hold 12 * 12).
NumPixels == 2
\* Largest side, in pixels, requested from the surface pool on its own.
MaxRequest == 70
\* Axes of a font and variations of a request in the variation checks.
MaxAxes == 2

INITIAL_CG_CONTEXT_SIDE_LENGTH == 32

None == <<>>
Some(x) == <<x>>

FontKeys == {1, 2}

----------------------------------------------------------------------------
(* The native font service: which fonts exist, their axes and their glyphs. *)

\* System font names, as character sequences (starts_with('.') reads the first).
Helvetica == <<"H">>
HiddenSystem == <<".", "S">>
LucidaGrande == <<"L">>
NoSuchFont == <<"N">>
NoSuchHidden == <<".", "N">>
InstalledFonts == {Helvetica, HiddenSystem, LucidaGrande}
FontNames == InstalledFonts \cup {NoSuchFont, NoSuchHidden}

\* Font data handed to add_raw_font: two well-formed fonts and malformed data.
PlainData == <<"sfnt", "plain">>
VariableData == <<"sfnt", "var">>
Malformed == <<"junk">>
FontData == {PlainData, VariableData, Malformed}
FontFaces == {"plain", "var"}

\* A variation axis as CTFontCopyVariationAxes reports it: a dictionary (or some
\* other object) whose entries are present with the right type (Some) or not (None).
MkAxis(tag, name, min, max, def) ==
    [dict |-> TRUE, tag |-> Some(tag), name |-> Some(name),
     min |-> Some(min), max |-> Some(max), def |-> Some(def)]

WeightAxis == MkAxis(1, "wght", 0, 100, 50)

\* The axes array of a font face (None: CTFontCopyVariationAxes returned null).
AxesOfFace(face) ==
    IF face = "var" THEN Some(<<WeightAxis>>) ELSE None

\* CGFont::from_name
CGFont_from_name(name) ==
    IF name \in InstalledFonts
    THEN [ok |-> TRUE,
          font |-> [face |-> IF name = HiddenSystem THEN "var" ELSE "plain"]]
    ELSE [ok |-> FALSE, font |-> [face |-> "none"]]

\* CGFont::from_data_provider
CGFont_from_data_provider(bytes) ==
    IF Len(bytes) = 2 /\ bytes[1] = "sfnt"
    THEN [ok |-> TRUE, font |-> [face |-> bytes[2]]]
    ELSE [ok |-> FALSE, font |-> [face |-> "none"]]

----------------------------------------------------------------------------
(* new_ct_font_with_variations *)

Min(a, b) == IF a < b THEN a ELSE b
Max(a, b) == IF a > b THEN a ELSE b

\* variations.iter().find(|variation| variation.tag == tag_val): the first match.
FindVariation(variations, tag_val) ==
    LET hits == {i \in DOMAIN variations : variations[i].tag = tag_val}
    IN  IF hits = {} THEN None
        ELSE Some(variations[CHOOSE i \in hits : \A j \in hits : i <= j].value)

\* A clamp that forgets the axis maximum.
ClampFromBelow(val, min_val, max_val) == Max(val, min_val)

\* val.max(min_val).min(max_val)
Clamp(val, min_val, max_val) == Min(Max(val, min_val), max_val)

\* The loop ending with the pairs collected so far, instead of returning the
\* unvaried font, when a supplied axis lacks its name, range or default.
RECURSIVE AxisLoopKeeping(_, _, _, _)
AxisLoopKeeping(axes, i, variations, vals) ==
    IF i > Len(axes) THEN Some(vals)
    ELSE LET axis == axes[i]
             found == IF axis.dict /\ axis.tag # None
                      THEN FindVariation(variations, axis.tag[1]) ELSE None
         IN  IF ~axis.dict THEN None
             ELSE IF axis.tag = None THEN None
             ELSE IF found = None THEN AxisLoopKeeping(axes, i + 1, variations, vals)
             ELSE IF axis.name = None \/ axis.min = None
                     \/ axis.max = None \/ axis.def = None
             THEN Some(vals)
             ELSE LET val == Clamp(found[1], axis.min[1], axis.max[1])
                  IN  IF val # axis.def[1]
                      THEN AxisLoopKeeping(axes, i + 1, variations,
                                           Append(vals, <<axis.name[1], val>>))
                      ELSE AxisLoopKeeping(axes, i + 1, variations, vals)

\* The loop over the axes from axis i on, vals being the pairs collected so far:
\* Some(vals) when the loop ends, None when it returns the unvaried font early.
RECURSIVE AxisLoop(_, _, _, _)
AxisLoop(axes, i, variations, vals) ==
    IF i > Len(axes) THEN Some(vals)
    ELSE LET axis == axes[i]
             found == IF axis.dict /\ axis.tag # None
                      THEN FindVariation(variations, axis.tag[1]) ELSE None
         IN  IF ~axis.dict THEN None
             ELSE IF axis.tag = None THEN None
             ELSE IF found = None THEN AxisLoop(axes, i + 1, variations, vals)
             ELSE IF axis.name = None THEN None
             ELSE IF axis.min = None THEN None
             ELSE IF axis.max = None THEN None
             ELSE IF axis.def = None THEN None
             ELSE LET val == Clamp(found[1], axis.min[1], axis.max[1])
                  IN  IF val # axis.def[1]
                      THEN AxisLoop(axes, i + 1, variations,
                                    Append(vals, <<axis.name[1], val>>))
                      ELSE AxisLoop(axes, i + 1, variations, vals)

\* The font new_ct_font_with_variations builds from a base font whose axes array is
\* axes_ref: applied is the variation dictionary, varied tells the font made by
\* create_copy_from_variations from the unvaried ct_font.
VariedFont(cg_font, size, axes_ref, variations) ==
    LET unvaried == [cg |-> cg_font, size |-> size, applied |-> {}, varied |-> FALSE]
        vals == IF axes_ref = None THEN None
                ELSE AxisLoop(axes_ref[1], 1, variations, <<>>)
    IN  IF variations = <<>> THEN unvaried
        ELSE IF axes_ref = None THEN unvaried
        ELSE IF vals = None THEN unvaried
        ELSE IF vals[1] = <<>> THEN unvaried
        ELSE [cg |-> cg_font, size |-> size,
              applied |-> {vals[1][j] : j \in DOMAIN vals[1]}, varied |-> TRUE]

\* CTFontCopyVariationAxes on the font made from cg_font: the axes of its face,
\* or the axes array the font itself carries.
AxesOf(cg_font) ==
    IF "axes" \in DOMAIN cg_font THEN cg_font.axes ELSE AxesOfFace(cg_font.face)

new_ct_font_with_variations(cg_font, size, variations) ==
    VariedFont(cg_font, size, AxesOf(cg_font), variations)

----------------------------------------------------------------------------
(* FontContext: the base font table and the sized font cache *)

\* FontSize::from_f64_px, exact on the whole-pixel sizes of this model.
FontSize_from_f64_px(size) == size

\* get_ct_font without the Entry::Occupied arm: every call instantiates.
get_ct_font_uncached(cg, ct, font_key, size, variations) ==
    LET entry == <<font_key, FontSize_from_f64_px(size), variations>>
    IN  IF font_key \notin DOMAIN cg
        THEN [font |-> None, ct_fonts |-> ct, made |-> 0]
        ELSE LET ct_font == new_ct_font_with_variations(cg[font_key], size, variations)
             IN  [font |-> Some(ct_font),
                  ct_fonts |-> [e \in DOMAIN ct \cup {entry} |->
                                  IF e = entry THEN ct_font ELSE ct[e]],
                  made |-> 1]

\* get_ct_font sizing and caching the fallback font for a key with no base font.
get_ct_font_substituting(cg, ct, font_key, size, variations) ==
    LET entry == <<font_key, FontSize_from_f64_px(size), variations>>
        cg_font == IF font_key \in DOMAIN cg THEN cg[font_key]
                   ELSE CGFont_from_name(LucidaGrande).font
        ct_font == new_ct_font_with_variations(cg_font, size, variations)
    IN  IF entry \in DOMAIN ct
        THEN [font |-> Some(ct[entry]), ct_fonts |-> ct, made |-> 0]
        ELSE [font |-> Some(ct_font), ct_fonts |-> ct @@ (entry :> ct_font),
              made |-> 1]

\* FontContext::get_ct_font: the font returned, the cache it leaves behind and the
\* number of CoreText fonts it instantiated.
get_ct_font(cg, ct, font_key, size, variations) ==
    LET entry == <<font_key, FontSize_from_f64_px(size), variations>>
    IN  IF entry \in DOMAIN ct
        THEN [font |-> Some(ct[entry]), ct_fonts |-> ct, made |-> 0]
        ELSE IF font_key \notin DOMAIN cg
        THEN [font |-> None, ct_fonts |-> ct, made |-> 0]
        ELSE LET ct_font == new_ct_font_with_variations(cg[font_key], size, variations)
             IN  [font |-> Some(ct_font),
                  ct_fonts |-> ct @@ (entry :> ct_font),
                  made |-> 1]

\* self.ct_fonts.retain(|k, _| k.0 != *font_key)
RetainEverything(ct, font_key) == ct
Retain(ct, font_key) ==
    [e \in {d \in DOMAIN ct : d[1] # font_key} |-> ct[e]]

\* self.ct_fonts.remove(&entry), self.cg_fonts.remove(font_key)
Remove(map, entry) ==
    [e \in DOMAIN map \ {entry} |-> map[e]]

\* The record of a call: its arguments, how it ended ("return", "panic", or the
\* result's variant), the value returned, the number of CoreText fonts it
\* instantiated and the CoreGraphics calls it made.
Ret(op, font_key, outcome) ==
    [op |-> op, font_key |-> font_key, outcome |-> outcome, args |-> <<>>,
     value |-> None, made |-> 0, calls |-> <<>>]

\* add_raw_font registering whatever the parser returned, its error included.
add_raw_font_unparsed(font_key, bytes, index) ==
    LET parsed == CGFont_from_data_provider(bytes)
    IN  /\ ret' = [Ret("add_raw_font", font_key,
                        IF font_key \notin DOMAIN cg_fonts /\ index # 0
                        THEN "panic" ELSE "return")
                    EXCEPT !.args = <<bytes, index>>]
        /\ cg_fonts' = IF font_key \in DOMAIN cg_fonts THEN cg_fonts
                       ELSE IF index # 0 THEN cg_fonts
                       ELSE cg_fonts @@ (font_key :> parsed.font)
        /\ UNCHANGED <<ct_fonts, graphics_context, requested, probe, threads>>

\* FontContext::add_raw_font
add_raw_font(font_key, bytes, index) ==
    LET parsed == CGFont_from_data_provider(bytes)
    IN  /\ ret' = [Ret("add_raw_font", font_key,
                        IF font_key \notin DOMAIN cg_fonts /\ index # 0
                        THEN "panic" ELSE "return")
                    EXCEPT !.args = <<bytes, index>>]
        /\ cg_fonts' = IF font_key \in DOMAIN cg_fonts THEN cg_fonts
                       ELSE IF index # 0 THEN cg_fonts
                       ELSE IF ~parsed.ok THEN cg_fonts
                       ELSE cg_fonts @@ (font_key :> parsed.font)
        /\ UNCHANGED <<ct_fonts, graphics_context, requested, probe, threads>>

\* The base font add_native_font registers for a name (None: it panics instead).
NativeFontFor(name) ==
    LET hidden == Len(name) > 0 /\ name[1] = "."
        first == CGFont_from_name(name)
        fallback == CGFont_from_name(LucidaGrande)
    IN  IF hidden /\ ~first.ok /\ ~fallback.ok THEN None
        ELSE IF ~first.ok THEN None
        ELSE Some(first.font)

\* FontContext::add_native_font
add_native_font(font_key, name) ==
    LET cg_font == NativeFontFor(name)
        present == font_key \in DOMAIN cg_fonts
    IN  /\ ret' = [Ret("add_native_font", font_key,
                        IF ~present /\ cg_font = None THEN "panic" ELSE "return")
                    EXCEPT !.args = <<name>>]
        /\ cg_fonts' = IF present \/ cg_font = None THEN cg_fonts
                       ELSE cg_fonts @@ (font_key :> cg_font[1])
        /\ UNCHANGED <<ct_fonts, graphics_context, requested, probe, threads>>

\* FontContext::delete_font
delete_font(font_key) ==
    /\ ret' = [Ret("delete_font", font_key, "return") EXCEPT
                 !.value = IF font_key \in DOMAIN cg_fonts
                           THEN Some([font |-> cg_fonts[font_key],
                                      purged |-> Cardinality(DOMAIN ct_fonts)
                                          - Cardinality(DOMAIN Retain(ct_fonts, font_key))])
                           ELSE None]
    /\ cg_fonts' = IF font_key \in DOMAIN cg_fonts
                   THEN Remove(cg_fonts, font_key) ELSE cg_fonts
    /\ ct_fonts' = IF font_key \in DOMAIN cg_fonts
                   THEN Retain(ct_fonts, font_key) ELSE ct_fonts
    /\ UNCHANGED <<graphics_context, requested, probe, threads>>

----------------------------------------------------------------------------
(* Glyphs: the native font service's bounds, and get_glyph_metrics *)

\* Units per pixel.
U == 8 * 8

Floor(u) == u \div U
Ceil(u) == -((-u) \div U)

\* ct_font.get_bounding_rects_for_glyphs at 16 px; the font scales it by its size.
\* Glyph 1 is an ordinary letter, 2 a wide dash, 3 an empty glyph (a space);
\* CoreText answers NaN for a glyph index it does not know.
BaseBounds(glyph) ==
    CASE glyph = 1 -> [nan |-> FALSE, x |-> 32, y |-> -48, w |-> 544, h |-> 736]
      [] glyph = 2 -> [nan |-> FALSE, x |-> 0, y |-> 256, w |-> 2240, h |-> 96]
      [] glyph = 3 -> [nan |-> FALSE, x |-> 0, y |-> 0, w |-> 0, h |-> 0]
      [] OTHER -> [nan |-> TRUE, x |-> 0, y |-> 0, w |-> 0, h |-> 0]

BaseAdvance(glyph) ==
    CASE glyph = 1 -> 640
      [] glyph = 2 -> 2304
      [] glyph = 3 -> 256
      [] OTHER -> 0

GlyphBounds(ct_font, glyph) ==
    LET b == BaseBounds(glyph)
        k == ct_font.size
    IN  [nan |-> b.nan, x |-> (b.x * k) \div 16, y |-> (b.y * k) \div 16,
         w |-> (b.w * k) \div 16, h |-> (b.h * k) \div 16]

GlyphAdvance(ct_font, glyph) == (BaseAdvance(glyph) * ct_font.size) \div 16

SetMin(S) == CHOOSE v \in S : \A w \in S : v <= w
SetMax(S) == CHOOSE v \in S : \A w \in S : v >= w

\* CGRect::apply_transform: the bounding box of the four transformed corners.
ApplyTransform(r, t) ==
    LET xs == {r.x, r.x + r.w}
        ys == {r.y, r.y + r.h}
        px == {(t.a * x + t.c * y) \div U + t.tx : x \in xs, y \in ys}
        py == {(t.b * x + t.d * y) \div U + t.ty : x \in xs, y \in ys}
    IN  [x |-> SetMin(px), y |-> SetMin(py),
         w |-> SetMax(px) - SetMin(px), h |-> SetMax(py) - SetMin(py)]

ZeroMetrics ==
    [rasterized_left |-> 0, rasterized_width |-> 0, rasterized_height |-> 0,
     rasterized_ascent |-> 0, rasterized_descent |-> 0, advance |-> 0]

\* get_glyph_metrics; transform is an Option, the result is in whole pixels
\* (advance in units).
get_glyph_metrics(ct_font, transform, glyph, x_offset, y_offset, extra_width) ==
    LET raw == GlyphBounds(ct_font, glyph)
        adv == GlyphAdvance(ct_font, glyph)
        widened == [x |-> raw.x, y |-> raw.y, h |-> raw.h,
                    w |-> IF raw.w > 0 THEN raw.w + extra_width ELSE raw.w]
        bounds == IF transform # None
                  THEN ApplyTransform(widened, transform[1]) ELSE widened
        left == Floor(bounds.x) - 1
        bottom == Floor(bounds.y) - 1
        right == Ceil(bounds.x + bounds.w + x_offset) + 1
        top == Ceil(bounds.y + bounds.h + y_offset) + 1
    IN  IF raw.nan THEN ZeroMetrics
        ELSE [rasterized_left |-> left,
              rasterized_width |-> right - left,
              rasterized_height |-> top - bottom,
              rasterized_ascent |-> top,
              rasterized_descent |-> -bottom,
              advance |-> IF adv > 0 THEN adv + extra_width ELSE adv]

----------------------------------------------------------------------------
(* FontInstance, FontTransform and GlyphKey (crate::rasterizer), as far as the *)
(* font context reads them                                                     *)

FontTransform(scale_x, skew_x, skew_y, scale_y) ==
    [scale_x |-> scale_x, skew_x |-> skew_x, skew_y |-> skew_y, scale_y |-> scale_y]

Identity == FontTransform(U, 0, 0, U)
is_identity(t) == t = Identity
flip_x(t) == FontTransform(-t.scale_x, t.skew_x, -t.skew_y, t.scale_y)
flip_y(t) == FontTransform(t.scale_x, -t.skew_x, t.skew_y, -t.scale_y)
swap_xy(t) == FontTransform(t.skew_x, t.scale_x, t.scale_y, t.skew_y)

\* FontTransform::compute_scale, on the axis-aligned scales this model draws.
compute_scale(t) ==
    IF t.scale_x = 0 \/ t.scale_y = 0 THEN None
    ELSE Some(<<(IF t.scale_x < 0 THEN -t.scale_x ELSE t.scale_x) \div U,
                (IF t.scale_y < 0 THEN -t.scale_y ELSE t.scale_y) \div U>>)

\* compute_scale().unwrap_or((1.0, 1.0))
ScaleOf(font) ==
    IF compute_scale(font.transform) = None THEN <<1, 1>>
    ELSE compute_scale(font.transform)[1]

invert_scale(t, x_scale, y_scale) ==
    FontTransform(t.scale_x \div x_scale, t.skew_x \div y_scale,
                  t.skew_y \div x_scale, t.scale_y \div y_scale)

\* FontInstance::synthesize_italics: a skew of one quarter and the translation
\* that keeps the glyph's centre in place.
synthesize_italics(t, size) ==
    [shape |-> FontTransform(t.scale_x, t.skew_x - t.scale_x \div 4,
                             t.skew_y, t.scale_y - t.skew_y \div 4),
     tx |-> -((t.scale_x * size) \div 8),
     ty |-> -((t.skew_y * size) \div 8)]

\* FontInstance::get_extra_strikes
get_extra_strikes(font, strike_scale) ==
    IF font.flags \cap {"SYNTHETIC_BOLD", "MULTISTRIKE_BOLD"} = {} THEN 0
    ELSE Max(1, strike_scale)

\* FontInstance::get_subpx_offset
get_subpx_offset(font, key) ==
    IF "SUBPIXEL_POSITION" \in font.flags THEN key.subpx ELSE <<0, 0>>

\* FontInstance::get_transformed_size
get_transformed_size(font) == font.size * ScaleOf(font)[2]

\* is_bitmap_font
is_bitmap_font(font) == "EMBEDDED_BITMAPS" \in font.flags

\* key.index() as CGGlyph: the glyph index cut to 16 bits
CGGlyphOf(key) == key.index % 65536

\* The CGAffineTransform both get_glyph_dimensions and rasterize_glyph build from a
\* shape and a translation: None when the shape is the identity and nothing moves.
AffineOf(shape, tx, ty) ==
    IF ~is_identity(shape) \/ <<tx, ty>> # <<0, 0>>
    THEN Some([a |-> shape.scale_x, b |-> -shape.skew_y, c |-> -shape.skew_x,
               d |-> shape.scale_y, tx |-> tx, ty |-> -ty])
    ELSE None

\* The flags' flips and the transpose, in the order the code applies them.
Flipped(font, shape) ==
    LET s1 == IF "FLIP_X" \in font.flags THEN flip_x(shape) ELSE shape
        s2 == IF "FLIP_Y" \in font.flags THEN flip_y(s1) ELSE s1
    IN  IF "TRANSPOSE" \in font.flags THEN swap_xy(s2) ELSE s2

\* metrics.rasterized_width == 0 || metrics.rasterized_height == 0, the test of
\* rasterize_glyph
ZeroSizedNever(m) == FALSE
ZeroSized(m) == m.rasterized_width = 0 \/ m.rasterized_height = 0

\* get_glyph_dimensions measuring the glyph without the width of its extra strikes.
dimensions_plan_one_strike(font, key, ct_font) ==
    LET scale == ScaleOf(font)
        x_scale == scale[1]
        y_scale == scale[2]
        size == font.size * y_scale
        bitmap == is_bitmap_font(font)
        shape0 == IF bitmap THEN Identity
                  ELSE invert_scale(font.transform, y_scale, y_scale)
        offset == IF bitmap THEN <<0, 0>> ELSE get_subpx_offset(font, key)
        shape1 == Flipped(font, shape0)
        italic == synthesize_italics(shape1, size)
        shape == IF font.synthetic_italics THEN italic.shape ELSE shape1
        tx == IF font.synthetic_italics THEN italic.tx ELSE 0
        ty == IF font.synthetic_italics THEN italic.ty ELSE 0
        transform == AffineOf(shape, tx, ty)
        strike_scale == IF bitmap THEN y_scale ELSE x_scale
        pixel_step == IF bitmap THEN U ELSE (U * y_scale) \div x_scale
        extra_strikes == get_extra_strikes(font, strike_scale)
    IN  [glyph |-> CGGlyphOf(key), transform |-> transform,
         x_offset |-> offset[1], y_offset |-> offset[2], tx |-> tx, ty |-> ty,
         extra_strikes |-> extra_strikes, pixel_step |-> pixel_step,
         metrics |-> get_glyph_metrics(ct_font, transform, CGGlyphOf(key),
                                       offset[1], offset[2],
                                       0)]

\* FontContext::get_glyph_dimensions, from the resolved font on: the transform, the
\* offsets, the strikes and the metrics.
dimensions_plan(font, key, ct_font) ==
    LET scale == ScaleOf(font)
        x_scale == scale[1]
        y_scale == scale[2]
        size == font.size * y_scale
        bitmap == is_bitmap_font(font)
        shape0 == IF bitmap THEN Identity
                  ELSE invert_scale(font.transform, y_scale, y_scale)
        offset == IF bitmap THEN <<0, 0>> ELSE get_subpx_offset(font, key)
        shape1 == Flipped(font, shape0)
        italic == synthesize_italics(shape1, size)
        shape == IF font.synthetic_italics THEN italic.shape ELSE shape1
        tx == IF font.synthetic_italics THEN italic.tx ELSE 0
        ty == IF font.synthetic_italics THEN italic.ty ELSE 0
        transform == AffineOf(shape, tx, ty)
        strike_scale == IF bitmap THEN y_scale ELSE x_scale
        pixel_step == IF bitmap THEN U ELSE (U * y_scale) \div x_scale
        extra_strikes == get_extra_strikes(font, strike_scale)
    IN  [glyph |-> CGGlyphOf(key), transform |-> transform,
         x_offset |-> offset[1], y_offset |-> offset[2], tx |-> tx, ty |-> ty,
         extra_strikes |-> extra_strikes, pixel_step |-> pixel_step,
         metrics |-> get_glyph_metrics(ct_font, transform, CGGlyphOf(key),
                                       offset[1], offset[2],
                                       extra_strikes * pixel_step)]

\* FontContext::rasterize_glyph, from the resolved font to the metrics.
raster_plan(font, key, ct_font) ==
    LET scale == ScaleOf(font)
        x_scale == scale[1]
        y_scale == scale[2]
        size == font.size * y_scale
        glyph_type == IF is_bitmap_font(font) THEN "Bitmap" ELSE "Vector"
        shape0 == IF glyph_type = "Bitmap" THEN Identity
                  ELSE invert_scale(font.transform, y_scale, y_scale)
        offset == IF glyph_type = "Bitmap" THEN <<0, 0>>
                  ELSE get_subpx_offset(font, key)
        shape1 == Flipped(font, shape0)
        italic == synthesize_italics(shape1, size)
        shape == IF font.synthetic_italics THEN italic.shape ELSE shape1
        tx == IF font.synthetic_italics THEN italic.tx ELSE 0
        ty == IF font.synthetic_italics THEN italic.ty ELSE 0
        transform == AffineOf(shape, tx, ty)
        glyph == CGGlyphOf(key)
        strike_scale == IF glyph_type = "Bitmap" THEN y_scale ELSE x_scale
        pixel_step == IF glyph_type = "Bitmap" THEN U ELSE (U * y_scale) \div x_scale
        extra_strikes == get_extra_strikes(font, strike_scale)
    IN  [glyph |-> glyph, glyph_type |-> glyph_type, transform |-> transform,
         x_offset |-> offset[1], y_offset |-> offset[2], tx |-> tx, ty |-> ty,
         extra_strikes |-> extra_strikes, pixel_step |-> pixel_step,
         metrics |-> get_glyph_metrics(ct_font, transform, glyph,
                                       offset[1], offset[2],
                                       extra_strikes * pixel_step)]

----------------------------------------------------------------------------
(* GraphicsContext: the two pooled surfaces *)

Size2D(width, height) == [width |-> width, height |-> height]

\* u32::next_power_of_two, for arguments up to 2^31
RECURSIVE PowerFrom(_, _)
PowerFrom(n, p) == IF p >= n THEN p ELSE PowerFrom(n, 2 * p)
next_power_of_two(n) == PowerFrom(n, 1)

\* GraphicsContext::create_cg_context: a new surface, no drawing state set on it yet.
create_cg_context(size, glyph_type, id) ==
    [id |-> id, width |-> size.width, height |-> size.height,
     glyph_type |-> glyph_type, state |-> None]

\* GraphicsContext::new
GraphicsContext_new ==
    LET size == Size2D(INITIAL_CG_CONTEXT_SIDE_LENGTH, INITIAL_CG_CONTEXT_SIDE_LENGTH)
    IN  [vector_context |-> create_cg_context(size, "Vector", 1),
         vector_context_size |-> size,
         bitmap_context |-> create_cg_context(size, "Bitmap", 2),
         bitmap_context_size |-> size,
         created |-> 2]

\* get_context sizing the new surface to the rounded request alone.
get_context_rounded_only(gc, size, glyph_type) ==
    LET cached_size == IF glyph_type = "Vector" THEN gc.vector_context_size
                       ELSE gc.bitmap_context_size
        rounded_size == Size2D(next_power_of_two(size.width),
                               next_power_of_two(size.height))
        fresh == create_cg_context(rounded_size, glyph_type, gc.created + 1)
    IN  IF rounded_size.width > cached_size.width
           \/ rounded_size.height > cached_size.height
        THEN IF glyph_type = "Vector"
             THEN [gc EXCEPT !.vector_context = fresh,
                             !.vector_context_size = rounded_size,
                             !.created = gc.created + 1]
             ELSE [gc EXCEPT !.bitmap_context = fresh,
                             !.bitmap_context_size = rounded_size,
                             !.created = gc.created + 1]
        ELSE gc

\* get_context creating a surface on every call.
get_context_always_fresh(gc, size, glyph_type) ==
    LET cached_size == IF glyph_type = "Vector" THEN gc.vector_context_size
                       ELSE gc.bitmap_context_size
        rounded_size == Size2D(next_power_of_two(size.width),
                               next_power_of_two(size.height))
        grown == Size2D(IF cached_size.width > rounded_size.width
                        THEN cached_size.width ELSE rounded_size.width,
                        IF cached_size.height > rounded_size.height
                        THEN cached_size.height ELSE rounded_size.height)
        fresh == create_cg_context(grown, glyph_type, gc.created + 1)
    IN  IF glyph_type = "Vector"
        THEN [gc EXCEPT !.vector_context = fresh, !.vector_context_size = grown,
                        !.created = gc.created + 1]
        ELSE [gc EXCEPT !.bitmap_context = fresh, !.bitmap_context_size = grown,
                        !.created = gc.created + 1]

\* GraphicsContext::get_context: the pool after the call (the surface handed out
\* is the category's cached surface of that pool).
get_context(gc, size, glyph_type) ==
    LET cached_size == IF glyph_type = "Vector" THEN gc.vector_context_size
                       ELSE gc.bitmap_context_size
        rounded_size == Size2D(next_power_of_two(size.width),
                               next_power_of_two(size.height))
        grown == Size2D(Max(cached_size.width, rounded_size.width),
                        Max(cached_size.height, rounded_size.height))
        fresh == create_cg_context(grown, glyph_type, gc.created + 1)
    IN  IF rounded_size.width > cached_size.width
           \/ rounded_size.height > cached_size.height
        THEN IF glyph_type = "Vector"
             THEN [gc EXCEPT !.vector_context = fresh, !.vector_context_size = grown,
                             !.created = gc.created + 1]
             ELSE [gc EXCEPT !.bitmap_context = fresh, !.bitmap_context_size = grown,
                             !.created = gc.created + 1]
        ELSE gc

\* The history of the sizes asked of the pool, after one more request.
Asked(history, size, glyph_type) ==
    [history EXCEPT ![glyph_type] =
        Size2D(Max(@.width, size.width), Max(@.height, size.height))]

NothingAsked == [t \in {"Vector", "Bitmap"} |-> Size2D(0, 0)]

CachedContext(gc, glyph_type) ==
    IF glyph_type = "Vector" THEN gc.vector_context ELSE gc.bitmap_context

CachedSize(gc, glyph_type) ==
    IF glyph_type = "Vector" THEN gc.vector_context_size ELSE gc.bitmap_context_size

\* get_rasterized_pixels copying whole surface rows instead of the glyph's width.
get_rasterized_pixels_whole_rows(gc, size, glyph_type) ==
    LET cached_size == IF glyph_type = "Vector" THEN gc.vector_context_size
                       ELSE gc.bitmap_context_size
        cached_stride == cached_size.width * 4
    IN  IF size.height > cached_size.height THEN <<>>
        ELSE <<[first_row |-> cached_size.height - size.height,
                rows |-> size.height,
                first_col |-> 0,
                cols |-> cached_size.width,
                len |-> size.height * cached_stride]>>

\* GraphicsContext::get_rasterized_pixels: the rows of the buffer read (row 0 is
\* the top scanline), the pixels of each that are read, and the bytes in all; or
\* None when a row lies outside the surface's buffer (the slice panics).
get_rasterized_pixels(gc, size, glyph_type) ==
    LET cached_size == CachedSize(gc, glyph_type)
        cached_stride == cached_size.width * 4
        data_len == cached_stride * cached_size.height
        rows == (cached_size.height - size.height) .. (cached_size.height - 1)
        cached_end(y) == y * cached_stride + size.width * 4
    IN  IF size.height > cached_size.height THEN None
        ELSE IF \E y \in rows : cached_end(y) > data_len THEN None
        ELSE Some([first_row |-> cached_size.height - size.height,
                   rows |-> Cardinality(rows),
                   first_col |-> 0,
                   cols |-> size.width,
                   len |-> Cardinality(rows) * (size.width * 4)])

----------------------------------------------------------------------------
(* FontContext::rasterize_glyph, from the metrics on *)

\* Colors, each channel in 0..255 (a ColorF channel is this over 255).
ColorU_new(r, g, b, a) == [r |-> r, g |-> g, b |-> b, a |-> a]
BLACK == ColorU_new(0, 0, 0, 255)
WHITE == ColorU_new(255, 255, 255, 255)
TRANSPARENT == ColorU_new(0, 0, 0, 0)
CG_AFFINE_TRANSFORM_IDENTITY == [a |-> U, b |-> 0, c |-> 0, d |-> U, tx |-> 0, ty |-> 0]

\* FontInstance::get_glyph_format
get_glyph_format(font) ==
    IF font.render_mode = "Subpixel" THEN "Subpixel" ELSE "Alpha"

\* The table without the row of Alpha with FONT_SMOOTHING: Alpha never smoothed.
DrawOptionsAlphaUnsmoothed(font, glyph_type) ==
    LET row(antialias, smooth, text_color, bg_color) ==
            [antialias |-> antialias, smooth |-> smooth,
             text_color |-> text_color, bg_color |-> bg_color]
    IN  IF glyph_type = "Bitmap" THEN row(TRUE, FALSE, font.color, TRANSPARENT)
        ELSE IF font.render_mode = "Subpixel" THEN row(TRUE, TRUE, BLACK, WHITE)
        ELSE IF font.render_mode = "Alpha" THEN row(TRUE, FALSE, BLACK, WHITE)
        ELSE row(FALSE, FALSE, BLACK, WHITE)

\* The (antialias, smooth, text_color, bg_color) table.
DrawOptions(font, glyph_type) ==
    LET use_font_smoothing == "FONT_SMOOTHING" \in font.flags
        row(antialias, smooth, text_color, bg_color) ==
            [antialias |-> antialias, smooth |-> smooth,
             text_color |-> text_color, bg_color |-> bg_color]
    IN  IF glyph_type = "Bitmap" THEN row(TRUE, FALSE, font.color, TRANSPARENT)
        ELSE IF font.render_mode = "Subpixel" THEN row(TRUE, TRUE, BLACK, WHITE)
        ELSE IF font.render_mode = "Alpha" /\ use_font_smoothing
             THEN row(TRUE, TRUE, BLACK, WHITE)
        ELSE IF font.render_mode = "Alpha" THEN row(TRUE, FALSE, BLACK, WHITE)
        ELSE row(FALSE, FALSE, BLACK, WHITE)

\* CGPoint::apply_transform(&transform.invert()), to the model's unit.
ApplyInverse(p, t) ==
    LET det == t.a * t.d - t.b * t.c
        x == p.x - t.tx
        y == p.y - t.ty
    IN  IF det = 0 THEN p
        ELSE [x |-> ((t.d * x - t.c * y) * U) \div det,
              y |-> ((t.a * y - t.b * x) * U) \div det]

\* The origin of the primary glyph.
DrawOrigin(plan) ==
    LET m == plan.metrics
        plain == [x |-> -(m.rasterized_left * U) + plan.x_offset + plan.tx,
                  y |-> m.rasterized_descent * U - plan.y_offset - plan.ty]
    IN  IF plan.transform # None THEN ApplyInverse(plain, plan.transform[1])
        ELSE plain

\* The text matrix left alone when the request has no transform.
TextMatrixCallsWithoutReset(plan) ==
    IF plan.transform # None
    THEN << <<"set_text_matrix", plan.transform[1]>> >>
    ELSE <<>>

\* The text matrix set for the draw: the request's transform, or the identity.
TextMatrixCalls(plan) ==
    IF plan.transform # None
    THEN << <<"set_text_matrix", plan.transform[1]>> >>
    ELSE << <<"set_text_matrix", CG_AFFINE_TRANSFORM_IDENTITY>> >>

\* The extra strikes handed to one draw_glyphs call.
StrikeCallsBatched(plan, origin) ==
    IF plan.extra_strikes = 0 THEN <<>>
    ELSE << <<"draw_glyphs", [i \in 1 .. plan.extra_strikes |-> plan.glyph],
              [i \in 1 .. plan.extra_strikes |->
                  [x |-> origin.x + i * plan.pixel_step, y |-> origin.y]]>> >>

\* for i in 1 ..= extra_strikes: one draw_glyphs call per extra strike, of the
\* glyphs and the origins given.
StrikeCalls(plan, origin) ==
    [i \in 1 .. plan.extra_strikes |->
        <<"draw_glyphs", <<plan.glyph>>,
          << [x |-> origin.x + i * plan.pixel_step, y |-> origin.y] >> >>]

\* The CoreGraphics calls of one rasterization, in the order they are made.
DrawCalls(font, plan) ==
    LET o == DrawOptions(font, plan.glyph_type)
        m == plan.metrics
        rect == [x |-> 0, y |-> 0, width |-> m.rasterized_width,
                 height |-> m.rasterized_height]
        origin == DrawOrigin(plan)
    IN  << <<"set_allows_font_subpixel_positioning", TRUE>>,
           <<"set_should_subpixel_position_fonts", TRUE>>,
           <<"set_allows_font_subpixel_quantization", FALSE>>,
           <<"set_should_subpixel_quantize_fonts", FALSE>>,
           <<"set_should_smooth_fonts", o.smooth>>,
           <<"set_should_antialias", o.antialias>>,
           <<"set_rgb_fill_color", o.bg_color>>,
           <<"set_blend_mode", "Copy">>,
           <<"fill_rect", rect>>,
           <<"set_blend_mode", "Normal">>,
           <<"set_rgb_fill_color", [o.text_color EXCEPT !.a = 255]>>,
           <<"set_text_drawing_mode", "CGTextFill">> >>
        \o TextMatrixCalls(plan)
        \o << <<"draw_glyphs", <<plan.glyph>>, <<origin>> >> >>
        \o StrikeCalls(plan, origin)

\* The last argument given to a setter in a sequence of calls (None: never called).
LastSet(calls, name) ==
    LET hits == {i \in DOMAIN calls : calls[i][1] = name}
    IN  IF hits = {} THEN None ELSE Some(calls[SetMax(hits)][2])

\* The setter of each attribute of a surface's drawing state.
Setters ==
    [subpixel_positioning |-> "set_should_subpixel_position_fonts",
     subpixel_quantization |-> "set_should_subpixel_quantize_fonts",
     smooth |-> "set_should_smooth_fonts",
     antialias |-> "set_should_antialias",
     fill_color |-> "set_rgb_fill_color",
     blend_mode |-> "set_blend_mode",
     text_drawing_mode |-> "set_text_drawing_mode",
     text_matrix |-> "set_text_matrix"]

\* The drawing state of a surface no setter was called on (None: the default of
\* CoreGraphics).
UnsetState == [attribute \in DOMAIN Setters |-> None]

\* The drawing state the calls leave on a surface that was in the state prior:
\* an attribute keeps the value it had unless a call sets it.
StateAfter(prior, calls) ==
    [attribute \in DOMAIN Setters |->
        IF LastSet(calls, Setters[attribute]) # None
        THEN LastSet(calls, Setters[attribute])
        ELSE prior[attribute]]

\* The pool after the calls were made on the category's surface.
Drawn(gc, glyph_type, calls) ==
    LET state == IF glyph_type = "Vector" THEN gc.vector_context.state
                 ELSE gc.bitmap_context.state
        after == StateAfter(IF state = None THEN UnsetState ELSE state[1], calls)
    IN  IF glyph_type = "Vector"
        THEN [gc EXCEPT !.vector_context.state = Some(after)]
        ELSE [gc EXCEPT !.bitmap_context.state = Some(after)]

\* One BGRA pixel of the buffer read back; blend and against record the lookup
\* of the gamma table it was pre-blended with and the color it was blended
\* against.
Pixel(b, g, r, a) ==
    [b |-> b, g |-> g, r |-> r, a |-> a, blend |-> "none", against |-> None]

\* The pixels a surface can hold where a glyph was drawn.
ReadPixels == {Pixel(255, 255, 255, 255), Pixel(40, 90, 160, 255)}

\* gamma_lut.coregraphics_convert_to_linear: B, G and R through the inverse
\* gamma table, alpha left alone.
coregraphics_convert_to_linear(pixel) ==
    [pixel EXCEPT !.b = (pixel.b * pixel.b) \div 255,
                  !.g = (pixel.g * pixel.g) \div 255,
                  !.r = (pixel.r * pixel.r) \div 255]

\* gamma_lut.preblend_grayscale
preblend_grayscale(pixel, color) ==
    [pixel EXCEPT !.blend = "preblend_grayscale", !.against = Some(color)]

\* gamma_lut.preblend
preblend(pixel, color) ==
    [pixel EXCEPT !.blend = "preblend", !.against = Some(color)]

\* The smoothed color taken from the render mode being corrected.
gamma_correct_pixels_by_render_mode(pixel, render_mode, color, mode) ==
    CASE render_mode = "Alpha" ->
            preblend_grayscale(pixel, ColorU_new(color.r \div 2, color.g \div 2,
                                                 color.b \div 2, color.a))
      [] render_mode = "Subpixel" ->
            preblend(pixel, ColorU_new(color.r - color.r \div 4,
                                       color.g - color.g \div 4,
                                       color.b - color.b \div 4, color.a))
      [] OTHER -> pixel

\* FontContext::gamma_correct_pixels on one pixel; mode is the value of
\* FONT_SMOOTHING_MODE.
gamma_correct_pixels(pixel, render_mode, color, mode) ==
    LET smooth_color ==
            CASE mode = Some("Subpixel") ->
                    ColorU_new(color.r - color.r \div 4, color.g - color.g \div 4,
                               color.b - color.b \div 4, color.a)
              [] mode = Some("Alpha") ->
                    ColorU_new(color.r \div 2, color.g \div 2, color.b \div 2,
                               color.a)
              [] OTHER -> color
    IN  CASE render_mode = "Alpha" -> preblend_grayscale(pixel, smooth_color)
          [] render_mode = "Subpixel" -> preblend(pixel, smooth_color)
          [] OTHER -> pixel

\* for pixel in rasterized_pixels.chunks_mut(4)
Invert(pixel) ==
    [pixel EXCEPT !.b = 255 - pixel.b, !.g = 255 - pixel.g, !.r = 255 - pixel.r,
                  !.a = 255 - pixel.g]

\* One step of the post-processing: what was applied, to which pixel, giving which.
Step(op, before, after) == [op |-> op, before |-> before, after |-> after]

\* The gamma correction applied to the pixel in device space, the inversion last.
PostProcessCorrectingFirst(font, glyph_type, read, mode) ==
    LET smooth == DrawOptions(font, glyph_type).smooth
        linear == IF smooth THEN coregraphics_convert_to_linear(read) ELSE read
        corrected == IF smooth
                     THEN gamma_correct_pixels(linear, font.render_mode,
                                               font.color, mode)
                     ELSE linear
    IN  IF glyph_type # "Vector" THEN <<>>
        ELSE (IF smooth
              THEN <<Step("coregraphics_convert_to_linear", read, linear),
                     Step("gamma_correct_pixels", linear, corrected)>>
              ELSE <<>>)
             \o <<Step("invert", corrected, Invert(corrected))>>

\* The post-processing steps applied to a pixel read back, in the order applied.
PostProcess(font, glyph_type, read, mode) ==
    LET smooth == DrawOptions(font, glyph_type).smooth
        linear == IF smooth THEN coregraphics_convert_to_linear(read) ELSE read
        inverted == Invert(linear)
    IN  IF glyph_type # "Vector" THEN <<>>
        ELSE (IF smooth
              THEN <<Step("coregraphics_convert_to_linear", read, linear)>>
              ELSE <<>>)
             \o <<Step("invert", linear, inverted)>>
             \o (IF smooth
                 THEN <<Step("gamma_correct_pixels", inverted,
                             gamma_correct_pixels(inverted, font.render_mode,
                                                  font.color, mode))>>
                 ELSE <<>>)

\* The glyph returned for a plan, the region read back, a pixel read in it and the
\* value of FONT_SMOOTHING_MODE.
RasterizedGlyph(font, plan, pixels, read, mode) ==
    LET post == PostProcess(font, plan.glyph_type, read, mode)
    IN
    [left |-> plan.metrics.rasterized_left,
     top |-> plan.metrics.rasterized_ascent,
     width |-> plan.metrics.rasterized_width,
     height |-> plan.metrics.rasterized_height,
     scale |-> IF plan.glyph_type = "Bitmap" THEN U \div ScaleOf(font)[2] ELSE U,
     format |-> IF plan.glyph_type = "Bitmap" THEN "ColorBitmap"
                ELSE get_glyph_format(font),
     bytes |-> [len |-> pixels.len,
                region |-> [first_row |-> pixels.first_row, rows |-> pixels.rows,
                            first_col |-> pixels.first_col, cols |-> pixels.cols],
                read |-> read,
                post |-> post,
                pixel |-> IF post = <<>> THEN read ELSE post[Len(post)].after]]

\* FontContext::rasterize_glyph
rasterize_glyph(font, key) ==
    \E got \in {get_ct_font(cg_fonts, ct_fonts, font.font_key,
                             font.size * ScaleOf(font)[2], font.variations)} :
    \E failed \in {[Ret("rasterize_glyph", font.font_key, "LoadFailed")
                     EXCEPT !.args = <<font, key>>, !.made = got.made]} :
        /\ ct_fonts' = got.ct_fonts
        /\ UNCHANGED <<cg_fonts, requested, probe, threads>>
        /\ IF got.font = None
           THEN /\ ret' = failed
                /\ UNCHANGED graphics_context
           ELSE \E plan \in {raster_plan(font, key, got.font[1])} :
                IF ZeroSized(plan.metrics)
                THEN /\ ret' = failed
                     /\ UNCHANGED graphics_context
                ELSE \E raster_size \in {Size2D(plan.metrics.rasterized_width,
                                                 plan.metrics.rasterized_height)} :
                     \E pool \in {get_context(graphics_context, raster_size,
                                               plan.glyph_type)} :
                     \E calls \in {DrawCalls(font, plan)} :
                     \E pixels \in {get_rasterized_pixels(pool, raster_size,
                                                          plan.glyph_type)} :
                     \E read \in IF pixels = None THEN {Pixel(0, 0, 0, 0)}
                                 ELSE ReadPixels :
                        /\ graphics_context' = Drawn(pool, plan.glyph_type, calls)
                        /\ ret' = IF pixels = None
                                  THEN [failed EXCEPT !.outcome = "panic",
                                                      !.calls = calls]
                                  ELSE [failed EXCEPT
                                          !.outcome = "Ok",
                                          !.calls = calls,
                                          !.value = Some(RasterizedGlyph(
                                                           font, plan, pixels[1],
                                                           read, probe.mode))]

----------------------------------------------------------------------------
(* The other calls of FontContext *)

\* ct_font.get_glyphs_for_characters: the glyph of a UTF-16 code unit (None: the
\* font has none).
GlyphForCharacter(ct_font, character) ==
    CASE character = 88 -> Some(1)
      [] character = 45 -> Some(2)
      [] character = 32 -> Some(3)
      [] OTHER -> None

\* get_glyph_index looking the whole code point up.
get_glyph_index_untruncated(font_key, ch) ==
    \E character \in {ch} :
    \E got \in {get_ct_font(cg_fonts, ct_fonts, font_key, 16, <<>>)} :
        /\ ct_fonts' = got.ct_fonts
        /\ ret' = [Ret("get_glyph_index", font_key, "return") EXCEPT
                     !.args = <<ch>>, !.made = got.made,
                     !.value = IF got.font = None THEN None
                               ELSE GlyphForCharacter(got.font[1], character)]
        /\ UNCHANGED <<cg_fonts, graphics_context, requested, probe, threads>>

\* FontContext::get_glyph_index
get_glyph_index(font_key, ch) ==
    \E character \in {ch % 65536} :
    \E got \in {get_ct_font(cg_fonts, ct_fonts, font_key, 16, <<>>)} :
        /\ ct_fonts' = got.ct_fonts
        /\ ret' = [Ret("get_glyph_index", font_key, "return") EXCEPT
                     !.args = <<ch>>, !.made = got.made,
                     !.value = IF got.font = None THEN None
                               ELSE GlyphForCharacter(got.font[1], character)]
        /\ UNCHANGED <<cg_fonts, graphics_context, requested, probe, threads>>

\* FontContext::get_glyph_dimensions
get_glyph_dimensions(font, key) ==
    \E got \in {get_ct_font(cg_fonts, ct_fonts, font.font_key,
                             font.size * ScaleOf(font)[2], font.variations)} :
    \E m \in {IF got.font = None THEN ZeroMetrics
               ELSE dimensions_plan(font, key, got.font[1]).metrics} :
        /\ ct_fonts' = got.ct_fonts
        /\ ret' = [Ret("get_glyph_dimensions", font.font_key, "return") EXCEPT
                     !.args = <<font, key>>, !.made = got.made,
                     !.value =
                        IF got.font = None THEN None
                        ELSE IF m.rasterized_width = 0 \/ m.rasterized_height = 0
                        THEN None
                        ELSE Some([left |-> m.rasterized_left,
                                   top |-> m.rasterized_ascent,
                                   width |-> m.rasterized_width,
                                   height |-> m.rasterized_height,
                                   advance |-> m.advance])]
        /\ UNCHANGED <<cg_fonts, graphics_context, requested, probe, threads>>

\* FontContext::delete_font_instance
delete_font_instance(instance) ==
    LET size == FontSize_from_f64_px(get_transformed_size(instance))
    IN  /\ ct_fonts' = Remove(ct_fonts, <<instance.font_key, size, instance.variations>>)
        /\ ret' = [Ret("delete_font_instance", instance.font_key, "return") EXCEPT
                     !.args = <<instance>>]
        /\ UNCHANGED <<cg_fonts, graphics_context, requested, probe, threads>>

\* A lookup on its own: self.get_ct_font(font_key, size, variations)
GetCtFont(font_key, size, variations) ==
    \E got \in {get_ct_font(cg_fonts, ct_fonts, font_key, size, variations)} :
        /\ ct_fonts' = got.ct_fonts
        /\ ret' = [Ret("get_ct_font", font_key, "return") EXCEPT
                     !.args = <<size, variations>>, !.value = got.font,
                     !.made = got.made]
        /\ UNCHANGED <<cg_fonts, graphics_context, requested, probe, threads>>

----------------------------------------------------------------------------
(* A font context in use: Spec *)

\* What the callers of this model hand in.
Heavy == <<[tag |-> 1, value |-> 150]>>
VariationLists == {<<>>, Heavy}
Scales == {FontTransform(U, 0, 0, U), FontTransform(2 * U, 0, 0, 2 * U)}
Characters == {88, 65536 + 88, 945}

TextColor == ColorU_new(200, 100, 50, 255)

Instance(font_key, transform, variations, flags) ==
    [font_key |-> font_key, size |-> 16, transform |-> transform,
     variations |-> variations, flags |-> flags, render_mode |-> "Alpha",
     synthetic_italics |-> FALSE, color |-> TextColor]

GlyphKey(index, subpx) == [index |-> index, subpx |-> subpx]

\* The instances of the cache's life: the first font at 16 px plain and varied and
\* at twice the scale, the second font at 16 px; and the glyph they ask for.
CacheInstances ==
    {Instance(1, FontTransform(U, 0, 0, U), <<>>, {}),
     Instance(1, FontTransform(U, 0, 0, U), Heavy, {}),
     Instance(1, FontTransform(2 * U, 0, 0, 2 * U), <<>>, {}),
     Instance(2, FontTransform(U, 0, 0, U), <<>>, {})}
CacheEntries ==
    {<<i.font_key, get_transformed_size(i), i.variations>> : i \in CacheInstances}
CacheGlyphKeys == {GlyphKey(1, <<0, 0>>)}

NotStarted == Ret("new", 0, "return")
NoProbe ==
    [smooth |-> <<>>, gray |-> <<>>, mode |-> None, done |-> TRUE,
     running |-> FALSE, runs |-> 1]
NoThreads == <<>>

\* FontContext::new
Init ==
    /\ cg_fonts = <<>>
    /\ ct_fonts = <<>>
    /\ graphics_context = GraphicsContext_new
    /\ requested = NothingAsked
    /\ ret = NotStarted
    /\ probe = NoProbe
    /\ threads = NoThreads

\* A panic ends the context's life.
Running == ret.outcome # "panic"

AddRawFont ==
    /\ Running
    /\ \E k \in FontKeys, bytes \in FontData, index \in {0, 1} :
          add_raw_font(k, bytes, index)

AddNativeFont ==
    /\ Running
    /\ \E k \in FontKeys, name \in FontNames : add_native_font(k, name)

DeleteFont ==
    /\ Running
    /\ \E k \in FontKeys : delete_font(k)

DeleteFontInstance ==
    /\ Running
    /\ \E i \in CacheInstances : delete_font_instance(i)

GetGlyphIndex ==
    /\ Running
    /\ \E k \in FontKeys, ch \in Characters : get_glyph_index(k, ch)

Lookup ==
    /\ Running
    /\ \E e \in CacheEntries : GetCtFont(e[1], e[2], e[3])

GetGlyphDimensions ==
    /\ Running
    /\ \E i \in CacheInstances, g \in CacheGlyphKeys : get_glyph_dimensions(i, g)

RasterizeGlyph ==
    /\ Running
    /\ \E i \in CacheInstances, g \in CacheGlyphKeys : rasterize_glyph(i, g)

Next ==
    \/ AddRawFont
    \/ AddNativeFont
    \/ DeleteFont
    \/ DeleteFontInstance
    \/ GetGlyphIndex
    \/ Lookup
    \/ GetGlyphDimensions
    \/ RasterizeGlyph

Spec == Init /\ [][Next]_vars

----------------------------------------------------------------------------
(* The surface pool on its own: SpecPool *)

RequestSides == {3, 10, 40, MaxRequest}

\* self.graphics_context.get_context(&size, glyph_type)
GetContext(size, glyph_type) ==
    /\ graphics_context' = get_context(graphics_context, size, glyph_type)
    /\ requested' = Asked(requested, size, glyph_type)
    /\ ret' = [Ret("get_context", 0, "return") EXCEPT !.args = <<size, glyph_type>>]
    /\ UNCHANGED <<cg_fonts, ct_fonts, probe, threads>>

Acquire ==
    \E w \in RequestSides, h \in RequestSides, t \in {"Vector", "Bitmap"} :
        GetContext(Size2D(w, h), t)

SpecPool == Init /\ [][Acquire]_vars

----------------------------------------------------------------------------
(* Rasterization with one registered font: SpecRaster *)

RasterFlags ==
    {{}, {"EMBEDDED_BITMAPS"}, {"SYNTHETIC_BOLD"}, {"FLIP_X", "SUBPIXEL_POSITION"}}

RasterInstances ==
    {Instance(1, t, <<>>, f) : t \in Scales, f \in RasterFlags}
        \cup {Instance(2, FontTransform(U, 0, 0, U), <<>>, {})}

RasterGlyphKeys ==
    {GlyphKey(i, <<0, 0>>) : i \in {1, 2, 3, 9, 65536 + 1}}
        \cup {GlyphKey(1, <<32, 0>>)}

RegisterFont ==
    /\ Running
    /\ add_raw_font(1, VariableData, 0)

Dimensions ==
    /\ Running
    /\ \E i \in RasterInstances, g \in RasterGlyphKeys : get_glyph_dimensions(i, g)

Rasterize ==
    /\ Running
    /\ \E i \in RasterInstances, g \in RasterGlyphKeys : rasterize_glyph(i, g)

NextRaster == RegisterFont \/ Dimensions \/ Rasterize

SpecRaster == Init /\ [][NextRaster]_vars

----------------------------------------------------------------------------
(* new_ct_font_with_variations on its own: SpecVariations *)

\* Axes a font may report: two well-formed weight and width axes, a width axis
\* whose default is its minimum, and axes missing what the loop reads.
WidthAxis == MkAxis(2, "wdth", 50, 200, 100)
NarrowAxis == MkAxis(2, "wdth", 0, 100, 0)
WellFormedAxes == {WeightAxis, WidthAxis, NarrowAxis}
NotADictionary == [WeightAxis EXCEPT !.dict = FALSE]
Untagged == [WidthAxis EXCEPT !.tag = None]
Unnamed == [WidthAxis EXCEPT !.name = None]
NoDefault == [WidthAxis EXCEPT !.def = None]
AxisChoices == WellFormedAxes \cup {NotADictionary, Untagged, Unnamed, NoDefault}

SuppliedValues == {-10, 50, 150}
SuppliedTags == {1, 2, 3}
VariationChoices == [tag : SuppliedTags, value : SuppliedValues]

SeqsUpTo(S, n) == UNION {[1..m -> S] : m \in 0..n}

\* The axes of one font carry different tags.
DistinctTags(axes) ==
    \A i, j \in DOMAIN axes :
        (i # j /\ axes[i].tag # None /\ axes[j].tag # None)
            => axes[i].tag # axes[j].tag

AxesArrays ==
    {None} \cup {Some(axes) : axes \in {a \in SeqsUpTo(AxisChoices, MaxAxes) :
                                           DistinctTags(a)}}

InitVariations ==
    /\ cg_fonts = <<>>
    /\ ct_fonts = <<>>
    /\ graphics_context = GraphicsContext_new
    /\ requested = NothingAsked
    /\ probe = NoProbe
    /\ threads = NoThreads
    /\ \E axes_ref \in AxesArrays, variations \in SeqsUpTo(VariationChoices, MaxAxes) :
          ret = [Ret("input", 0, "return") EXCEPT !.args = <<axes_ref, variations>>]

\* self.get_ct_font(font_key, 16.0, variations) making the sized font of a base
\* font with these axes: new_ct_font_with_variations(cg_font, 16, variations)
ApplyVariations ==
    /\ ret.op = "input"
    /\ \E cg_font \in {[face |-> "var", axes |-> ret.args[1]]} :
       \E got \in {get_ct_font(1 :> cg_font, <<>>, 1, 16, ret.args[2])} :
          ret' = [ret EXCEPT !.op = "new_ct_font_with_variations",
                             !.value = got.font]
    /\ UNCHANGED <<cg_fonts, ct_fonts, graphics_context, requested, probe, threads>>

SpecVariations == InitVariations /\ [][ApplyVariations]_vars

----------------------------------------------------------------------------
(* The font smoothing probe: SpecProbe *)

\* A pixel is its four bytes in memory order: blue, green, red and the skipped
\* byte (kCGImageAlphaNoneSkipFirst | kCGBitmapByteOrder32Little).
ProbePixels ==
    {<<0, 0, 0, 0>>, <<255, 255, 255, 0>>, <<128, 128, 128, 0>>,
     <<255, 128, 0, 0>>, <<0, 0, 255, 0>>, <<0, 0, 0, 255>>}

\* The loop that stops at the first pixel telling the renders apart.
RECURSIVE CompareFirstDifference(_, _, _, _)
CompareFirstDifference(smooth, gray, i, mode) ==
    IF i > Len(smooth) \/ i > Len(gray) THEN mode
    ELSE IF smooth[i][1] # smooth[i][2] \/ smooth[i][2] # smooth[i][3]
    THEN Some("Subpixel")
    ELSE IF smooth[i][1] # gray[i][1] \/ smooth[i][2] # gray[i][2]
            \/ smooth[i][3] # gray[i][3]
    THEN Some("Alpha")
    ELSE CompareFirstDifference(smooth, gray, i + 1, mode)

\* for (smooth, gray) in smooth.chunks(4).zip(gray.chunks(4)), from pixel i on
RECURSIVE ComparePixels(_, _, _, _)
ComparePixels(smooth, gray, i, mode) ==
    IF i > Len(smooth) \/ i > Len(gray) THEN mode
    ELSE IF smooth[i][1] # smooth[i][2] \/ smooth[i][2] # smooth[i][3]
    THEN Some("Subpixel")
    ELSE IF smooth[i][1] # gray[i][1] \/ smooth[i][2] # gray[i][2]
            \/ smooth[i][3] # gray[i][3]
    THEN ComparePixels(smooth, gray, i + 1, Some("Alpha"))
    ELSE ComparePixels(smooth, gray, i + 1, mode)

\* The probe answering at the first pixel that tells the renders apart.
determine_font_smoothing_mode_first_difference(smooth, gray) ==
    CompareFirstDifference(smooth, gray, 1, None)

\* determine_font_smoothing_mode, from the two renders on
determine_font_smoothing_mode(smooth, gray) ==
    ComparePixels(smooth, gray, 1, None)

InitProbe ==
    /\ cg_fonts = <<>>
    /\ ct_fonts = <<>>
    /\ graphics_context = GraphicsContext_new
    /\ requested = NothingAsked
    /\ ret = NotStarted
    /\ \E smooth \in [1..NumPixels -> ProbePixels], gray \in [1..NumPixels -> ProbePixels] :
          probe = [smooth |-> smooth, gray |-> gray, mode |-> None, done |-> FALSE,
                   running |-> FALSE, runs |-> 0]
    /\ threads = NoThreads

\* lazy_static FONT_SMOOTHING_MODE: the probe runs once.
DetermineFontSmoothingMode ==
    /\ ~probe.done
    /\ probe' = [probe EXCEPT !.mode = determine_font_smoothing_mode(probe.smooth,
                                                                     probe.gray),
                              !.done = TRUE, !.runs = probe.runs + 1]
    /\ UNCHANGED <<cg_fonts, ct_fonts, graphics_context, requested, ret, threads>>

SpecProbe == InitProbe /\ [][DetermineFontSmoothingMode]_vars

----------------------------------------------------------------------------
(* Properties of the font table and the sized font cache (Spec) *)

\* The sized fonts a caller may ask for: the sizes and variation lists in use.
LookupSizes == {e[2] : e \in CacheEntries}

\* get_ct_font finds nothing for the key, whatever the size and the variations.
GoneIn(cg, ct, font_key) ==
    /\ font_key \notin DOMAIN cg
    /\ \A e \in DOMAIN ct : e[1] # font_key
    /\ \A size \in LookupSizes, variations \in VariationLists :
          get_ct_font(cg, ct, font_key, size, variations).font = None

\* C1: delete_font on a registered key removes the base font and every sized
\* font cached under the key: right after it get_ct_font returns None for every
\* size and variation list, those cached before the delete included, and this
\* stays so through every call until a call adds the key again.
C1_DeleteFontPurges ==
    [][/\ (ret'.op = "delete_font" /\ ret'.font_key \in DOMAIN cg_fonts)
            => /\ GoneIn(cg_fonts', ct_fonts', ret'.font_key)
               /\ \A e \in DOMAIN ct_fonts :
                     e[1] = ret'.font_key
                        => get_ct_font(cg_fonts', ct_fonts', e[1], e[2], e[3]).font = None
       /\ \A k \in FontKeys :
             (/\ GoneIn(cg_fonts, ct_fonts, k)
              /\ ~(ret'.op \in {"add_raw_font", "add_native_font"} /\ ret'.font_key = k))
                => GoneIn(cg_fonts', ct_fonts', k)]_vars

\* A delete_font that purged two sized fonts of its key.
C1_Witness ==
    /\ ret.op = "delete_font"
    /\ ret.value # None
    /\ ret.value[1].purged >= 2
    /\ GoneIn(cg_fonts, ct_fonts, ret.font_key)

\* C2: add_native_font with the name of a font that is not installed returns
\* normally and leaves a base font registered for the key.
C2_MissingNativeFontFallsBack ==
    (ret.op = "add_native_font" /\ ret.args[1] \notin InstalledFonts)
        => (ret.outcome = "return" /\ ret.font_key \in DOMAIN cg_fonts)

\* The entry of the sized font cache a get_ct_font call looks at.
EntryOf(font_key, size, variations) ==
    <<font_key, FontSize_from_f64_px(size), variations>>

\* C3: a get_ct_font whose (key, size, variations) is cached returns the cached
\* font, instantiates nothing and leaves the cache as it is; one that is not
\* cached, on a registered key, instantiates one font and caches it under that
\* entry alone; and no call other than delete_font and delete_font_instance
\* removes or replaces an entry. So the second of two identical lookups with no
\* delete in between returns the font the first one cached.
C3_LookupIsCached ==
    [][/\ ret'.op = "get_ct_font"
            => LET e == EntryOf(ret'.font_key, ret'.args[1], ret'.args[2])
               IN  /\ e \in DOMAIN ct_fonts
                        => /\ ret'.value = Some(ct_fonts[e])
                           /\ ret'.made = 0
                           /\ ct_fonts' = ct_fonts
                   /\ (e \notin DOMAIN ct_fonts /\ ret'.font_key \in DOMAIN cg_fonts)
                        => /\ ret'.made = 1
                           /\ DOMAIN ct_fonts' = DOMAIN ct_fonts \cup {e}
                           /\ ret'.value = Some(ct_fonts'[e])
       /\ ret'.op \notin {"delete_font", "delete_font_instance"}
            => \A e \in DOMAIN ct_fonts :
                  e \in DOMAIN ct_fonts' /\ ct_fonts'[e] = ct_fonts[e]
       /\ ret'.op \in {"get_ct_font", "get_glyph_index", "get_glyph_dimensions",
                       "rasterize_glyph"}
            => ret'.made = Cardinality(DOMAIN ct_fonts') - Cardinality(DOMAIN ct_fonts)]_vars

\* A lookup of a varied font answered from the cache.
C3_Witness ==
    /\ ret.op = "get_ct_font"
    /\ ret.args[2] = Heavy
    /\ ret.made = 0
    /\ ret.value # None
    /\ EntryOf(ret.font_key, ret.args[1], ret.args[2]) \in DOMAIN ct_fonts
    /\ ret.value[1] = ct_fonts[EntryOf(ret.font_key, ret.args[1], ret.args[2])]

\* add_raw_font on a registered key changes nothing.
AddRawFontKeepsRegistered ==
    (ret'.op = "add_raw_font" /\ ret'.font_key \in DOMAIN cg_fonts)
        => /\ ret'.outcome = "return"
           /\ cg_fonts' = cg_fonts
           /\ ct_fonts' = ct_fonts

\* add_raw_font returned normally and registered nothing for its key.
DroppedSilently ==
    /\ ret'.outcome = "return"
    /\ cg_fonts' = cg_fonts
    /\ ct_fonts' = ct_fonts
    /\ GoneIn(cg_fonts', ct_fonts', ret'.font_key)

\* C8, as stated: add_raw_font is a no-op on a registered key; with malformed
\* bytes on an unregistered key it returns normally, registers nothing and
\* get_ct_font finds nothing for the key afterwards.
C8_MalformedAlwaysDropped ==
    [][/\ AddRawFontKeepsRegistered
       /\ (/\ ret'.op = "add_raw_font"
           /\ ret'.font_key \notin DOMAIN cg_fonts
           /\ ret'.args[1] = Malformed)
            => DroppedSilently]_vars

\* C8, amended: add_raw_font is a no-op on a registered key; with malformed
\* bytes and face index 0 on an unregistered key it returns normally, registers
\* nothing and get_ct_font finds nothing for the key afterwards; with another
\* face index on an unregistered key it panics.
C8_MalformedDroppedAtIndexZero ==
    [][/\ AddRawFontKeepsRegistered
       /\ (/\ ret'.op = "add_raw_font"
           /\ ret'.font_key \notin DOMAIN cg_fonts
           /\ ret'.args[1] = Malformed
           /\ ret'.args[2] = 0)
            => DroppedSilently
       /\ (/\ ret'.op = "add_raw_font"
           /\ ret'.font_key \notin DOMAIN cg_fonts
           /\ ret'.args[2] # 0)
            => (ret'.outcome = "panic" /\ cg_fonts' = cg_fonts)]_vars

\* Malformed bytes were handed in for a key that then stays unknown, next to a
\* registered font with a sized font in the cache.
C8_Witness ==
    /\ ret.op = "add_raw_font"
    /\ ret.args = <<Malformed, 0>>
    /\ ret.outcome = "return"
    /\ GoneIn(cg_fonts, ct_fonts, ret.font_key)
    /\ DOMAIN cg_fonts # {}
    /\ DOMAIN ct_fonts # {}

----------------------------------------------------------------------------
(* Properties of the surface pool (SpecPool) *)

GlyphTypes == {"Vector", "Bitmap"}

Rounded(size) ==
    Size2D(next_power_of_two(size.width), next_power_of_two(size.height))

\* C4, as stated: once a category has been asked for a surface, its pooled
\* surface measures the componentwise maximum of the sizes requested so far,
\* each side rounded up to a power of two.
C4_PoolIsRoundedMaximum ==
    \A t \in GlyphTypes :
        requested[t] # Size2D(0, 0)
            => /\ CachedSize(graphics_context, t) = Rounded(requested[t])
               /\ CachedContext(graphics_context, t).width = Rounded(requested[t]).width
               /\ CachedContext(graphics_context, t).height = Rounded(requested[t]).height

\* C4, amended: the pooled surface of a category measures, per side, the larger
\* of the initial side (32) and the largest request so far rounded up to a power
\* of two.
C4_PoolIsRoundedMaximumOverInitial ==
    \A t \in GlyphTypes :
        LET side(n) == IF next_power_of_two(n) > INITIAL_CG_CONTEXT_SIDE_LENGTH
                       THEN next_power_of_two(n)
                       ELSE INITIAL_CG_CONTEXT_SIDE_LENGTH
            size == Size2D(side(requested[t].width), side(requested[t].height))
        IN  /\ CachedSize(graphics_context, t) = size
            /\ CachedContext(graphics_context, t).width = size.width
            /\ CachedContext(graphics_context, t).height = size.height

\* Requests reaching (40, 10) componentwise left a 64 x 32 vector surface.
C4_Witness ==
    /\ requested["Vector"] = Size2D(40, 10)
    /\ graphics_context.vector_context_size = Size2D(64, 32)
    /\ graphics_context.vector_context.id > 1

\* C5: no side of either pooled surface ever decreases; a get_context replaces
\* the category's surface exactly when the rounded request exceeds it in some
\* dimension, the new surface measuring max(current, rounded) per dimension; and
\* the other category's surface and size stay as they are.
C5_PoolGrowsMonotonically ==
    [][/\ \A t \in GlyphTypes :
             /\ CachedSize(graphics_context', t).width
                    >= CachedSize(graphics_context, t).width
             /\ CachedSize(graphics_context', t).height
                    >= CachedSize(graphics_context, t).height
       /\ ret'.op = "get_context"
            => LET t == ret'.args[2]
                   rounded == Rounded(ret'.args[1])
                   old == CachedSize(graphics_context, t)
                   new == CachedSize(graphics_context', t)
                   exceeds == rounded.width > old.width \/ rounded.height > old.height
               IN  /\ exceeds <=> (CachedContext(graphics_context', t).id
                                       # CachedContext(graphics_context, t).id)
                   /\ exceeds
                        => /\ new.width = IF old.width > rounded.width
                                          THEN old.width ELSE rounded.width
                           /\ new.height = IF old.height > rounded.height
                                           THEN old.height ELSE rounded.height
                           /\ CachedContext(graphics_context', t).width = new.width
                           /\ CachedContext(graphics_context', t).height = new.height
                   /\ ~exceeds
                        => /\ new = old
                           /\ CachedContext(graphics_context', t)
                                  = CachedContext(graphics_context, t)
                   /\ \A other \in GlyphTypes \ {t} :
                         /\ CachedSize(graphics_context', other)
                                = CachedSize(graphics_context, other)
                         /\ CachedContext(graphics_context', other)
                                = CachedContext(graphics_context, other)]_vars

\* A tall bitmap request grew the height of a bitmap surface that was already
\* wider than the request, next to an untouched vector surface.
C5_Witness ==
    /\ ret.op = "get_context"
    /\ ret.args = <<Size2D(3, 40), "Bitmap">>
    /\ graphics_context.bitmap_context_size = Size2D(128, 64)
    /\ graphics_context.bitmap_context.id > 2
    /\ graphics_context.vector_context.id = 1

----------------------------------------------------------------------------
(* Properties of rasterize_glyph (SpecRaster) *)

\* The sized font a rasterize_glyph or get_glyph_dimensions call works with.
InstanceEntry(font) ==
    EntryOf(font.font_key, get_transformed_size(font), font.variations)

\* C6: rasterize_glyph ends in Ok or in LoadFailed and in nothing else; it ends
\* in LoadFailed exactly when get_ct_font cannot resolve the font (no cached
\* sized font and no base font for the key) or the metrics computed for the
\* glyph have zero width or zero height; and a LoadFailed call has issued no
\* CoreGraphics call and left both pooled surfaces, their sizes and their
\* drawing state as they were.
C6_LoadFailedOnly ==
    [][ret'.op = "rasterize_glyph"
         => LET font == ret'.args[1]
                key == ret'.args[2]
                e == InstanceEntry(font)
                resolved == e \in DOMAIN ct_fonts \/ font.font_key \in DOMAIN cg_fonts
                collapsed ==
                    LET m == raster_plan(font, key, ct_fonts'[e]).metrics
                    IN  m.rasterized_width = 0 \/ m.rasterized_height = 0
            IN  /\ ret'.outcome \in {"Ok", "LoadFailed"}
                /\ ret'.outcome = "LoadFailed" <=> (~resolved \/ collapsed)
                /\ ret'.outcome = "LoadFailed"
                     => /\ graphics_context' = graphics_context
                        /\ ret'.calls = <<>>
                        /\ ret'.value = None
                /\ ret'.outcome = "Ok"
                     => /\ ret'.calls # <<>>
                        /\ ret'.value # None]_vars

\* A glyph the font does not know failed to load on a resolved font, after an
\* earlier glyph had been drawn on the vector surface.
C6_Witness ==
    /\ ret.op = "rasterize_glyph"
    /\ ret.outcome = "LoadFailed"
    /\ ret.font_key \in DOMAIN cg_fonts
    /\ InstanceEntry(ret.args[1]) \in DOMAIN ct_fonts
    /\ ret.args[2].index = 9
    /\ graphics_context.vector_context.state # None

\* C7: the glyph a successful rasterize_glyph returns has the width, height,
\* left and top of the metrics computed for it, and its buffer holds exactly
\* width * height * 4 bytes, whatever the size of the pooled surface it was
\* read back from.
C7_GlyphHasMetricsSize ==
    (ret.op = "rasterize_glyph" /\ ret.outcome = "Ok")
        => LET font == ret.args[1]
               glyph == ret.value[1]
               m == raster_plan(font, ret.args[2],
                                ct_fonts[InstanceEntry(font)]).metrics
           IN  /\ glyph.width = m.rasterized_width
               /\ glyph.height = m.rasterized_height
               /\ glyph.left = m.rasterized_left
               /\ glyph.top = m.rasterized_ascent
               /\ glyph.width > 0
               /\ glyph.height > 0
               /\ glyph.bytes.len = glyph.width * glyph.height * 4

\* A glyph read back from a pooled surface larger than it in both dimensions.
C7_Witness ==
    /\ ret.op = "rasterize_glyph"
    /\ ret.outcome = "Ok"
    /\ LET size == CachedSize(graphics_context,
                              IF is_bitmap_font(ret.args[1]) THEN "Bitmap" ELSE "Vector")
       IN  /\ ret.value[1].width < size.width
           /\ ret.value[1].height < size.height
           /\ size.width > INITIAL_CG_CONTEXT_SIDE_LENGTH

----------------------------------------------------------------------------
(* Properties of new_ct_font_with_variations (SpecVariations) *)

\* Every axis of the array is a dictionary holding what the loop reads.
WellFormed(axes_ref) ==
    axes_ref # None => \A i \in DOMAIN axes_ref[1] : axes_ref[1][i] \in WellFormedAxes

\* The value an axis is set to: the first supplied value with the axis's tag,
\* brought into [min, max].
UsedValue(axis, variations) ==
    LET supplied == variations[CHOOSE i \in DOMAIN variations :
                                  /\ variations[i].tag = axis.tag[1]
                                  /\ \A j \in 1..(i - 1) : variations[j].tag # axis.tag[1]].value
    IN  IF supplied < axis.min[1] THEN axis.min[1]
        ELSE IF supplied > axis.max[1] THEN axis.max[1]
        ELSE supplied

\* C9: on a font whose axes are well-formed, the applied set of
\* new_ct_font_with_variations holds exactly the axes for which a value with the
\* axis's tag was supplied and whose value, clamped into [axis min, axis max],
\* differs from the axis default, each with that clamped value; axes with no
\* supplied value are not in it; and the font returned is the unvaried font
\* exactly when the applied set is empty.
C9_VariationsClamped ==
    (ret.op = "new_ct_font_with_variations" /\ WellFormed(ret.args[1]))
        => LET axes == IF ret.args[1] = None THEN <<>> ELSE ret.args[1][1]
               variations == ret.args[2]
               supplied(axis) == \E i \in DOMAIN variations :
                                     variations[i].tag = axis.tag[1]
               applied == {<<axes[i].name[1], UsedValue(axes[i], variations)>> :
                              i \in {j \in DOMAIN axes :
                                        /\ supplied(axes[j])
                                        /\ UsedValue(axes[j], variations)
                                               # axes[j].def[1]}}
           IN  /\ ret.value[1].applied = applied
               /\ ret.value[1].varied <=> applied # {}

\* Range [0, 100], default 50: a supplied 150 applies 100, next to a width axis
\* that is left out because the value supplied for it clamps to its default.
C9_Witness ==
    /\ ret.op = "new_ct_font_with_variations"
    /\ ret.args[1] = Some(<<WeightAxis, NarrowAxis>>)
    /\ ret.args[2] = <<[tag |-> 2, value |-> -10], [tag |-> 1, value |-> 150]>>
    /\ ret.value[1].applied = {<<"wght", 100>>}
    /\ ret.value[1].varied

----------------------------------------------------------------------------
(* Properties of the font smoothing probe (SpecProbe) *)

\* C10: the probe answers Subpixel if some pixel of the smoothing-requested
\* render has red, green and blue not all equal; otherwise Alpha if some pixel
\* differs in red, green or blue between the two renders; otherwise None;
\* wherever in the renders those pixels are.
C10_ProbeClassifies ==
    probe.done
        => LET pixels == DOMAIN probe.smooth
               coloured == \E i \in pixels :
                              ~(/\ probe.smooth[i][1] = probe.smooth[i][2]
                                /\ probe.smooth[i][2] = probe.smooth[i][3])
               dilated == \E i \in pixels : \E c \in 1..3 :
                              probe.smooth[i][c] # probe.gray[i][c]
           IN  probe.mode = IF coloured THEN Some("Subpixel")
                            ELSE IF dilated THEN Some("Alpha")
                            ELSE None

\* A coloured pixel found after a pixel that only differs between the renders.
C10_Witness ==
    /\ probe.done
    /\ probe.smooth # <<>>
    /\ probe.smooth[1] = <<255, 255, 255, 0>>
    /\ probe.gray[1] = <<128, 128, 128, 0>>
    /\ probe.smooth[NumPixels] = <<255, 128, 0, 0>>
    /\ probe.mode = Some("Subpixel")

----------------------------------------------------------------------------
(* FONT_SMOOTHING_MODE read from several threads: SpecOnce *)

\* Threads that own a FontContext each, and the reads each of them makes.
NumThreads == 2
MaxReads == 2
Threads == 1 .. NumThreads

\* Where FONT_SMOOTHING_MODE is dereferenced: FontContext::new (when debug
\* logging evaluates its argument), prepare_font and gamma_correct_pixels.
ReadSites == {"new", "prepare_font", "gamma_correct_pixels"}

\* The renders the host gives the probe: no smoothing, dilated grayscale, and
\* subpixel antialiasing.
HostRenders ==
    {[smooth |-> <<<<128, 128, 128, 0>>, <<0, 0, 0, 0>>>>,
      gray |-> <<<<128, 128, 128, 0>>, <<0, 0, 0, 0>>>>],
     [smooth |-> <<<<255, 255, 255, 0>>, <<0, 0, 0, 0>>>>,
      gray |-> <<<<128, 128, 128, 0>>, <<0, 0, 0, 0>>>>],
     [smooth |-> <<<<255, 255, 255, 0>>, <<255, 128, 0, 0>>>>,
      gray |-> <<<<128, 128, 128, 0>>, <<0, 0, 0, 0>>>>]}

\* An initialization guard that lets every thread arriving before completion
\* run the initializer.
MustInitializeUnguarded(p) == ~p.done

\* The one-time initialization guard of lazy_static: the initializer is due when
\* it has neither completed nor been started by another thread.
MustInitialize(p) == ~p.done /\ ~p.running

InitOnce ==
    /\ cg_fonts = <<>>
    /\ ct_fonts = <<>>
    /\ graphics_context = GraphicsContext_new
    /\ requested = NothingAsked
    /\ ret = NotStarted
    /\ \E host \in HostRenders :
          probe = [smooth |-> host.smooth, gray |-> host.gray, mode |-> None,
                   done |-> FALSE, running |-> FALSE, runs |-> 0]
    /\ threads = [t \in Threads |->
                    [pc |-> "idle", site |-> "new", seen |-> <<>>, waited |-> FALSE]]

\* *FONT_SMOOTHING_MODE on thread t at a site: a read of the value when it is
\* initialized, the start of the initializer when it is due, a wait otherwise.
Deref(t, site) ==
    /\ threads[t].pc = "idle"
    /\ Len(threads[t].seen) < MaxReads
    /\ IF probe.done
       THEN /\ threads' = [threads EXCEPT ![t].site = site,
                                          ![t].seen = Append(@, probe.mode)]
            /\ UNCHANGED probe
       ELSE IF MustInitialize(probe)
       THEN /\ threads' = [threads EXCEPT ![t].site = site, ![t].pc = "initializing"]
            /\ probe' = [probe EXCEPT !.running = TRUE]
       ELSE /\ threads' = [threads EXCEPT ![t].site = site, ![t].pc = "waiting",
                                          ![t].waited = TRUE]
            /\ UNCHANGED probe
    /\ UNCHANGED <<cg_fonts, ct_fonts, graphics_context, requested, ret>>

\* The initializer returns on the thread that runs it: the value is stored and
\* the thread reads it.
Initialized(t) ==
    /\ threads[t].pc = "initializing"
    /\ \E mode \in {determine_font_smoothing_mode(probe.smooth, probe.gray)} :
          /\ probe' = [probe EXCEPT !.mode = mode, !.done = TRUE, !.running = FALSE,
                                    !.runs = probe.runs + 1]
          /\ threads' = [threads EXCEPT ![t].pc = "idle", ![t].seen = Append(@, mode)]
    /\ UNCHANGED <<cg_fonts, ct_fonts, graphics_context, requested, ret>>

\* A thread that waited for the initializer of another thread reads the value.
Woken(t) ==
    /\ threads[t].pc = "waiting"
    /\ probe.done
    /\ threads' = [threads EXCEPT ![t].pc = "idle", ![t].seen = Append(@, probe.mode)]
    /\ UNCHANGED <<cg_fonts, ct_fonts, graphics_context, requested, ret, probe>>

Read == \E t \in Threads, site \in ReadSites : Deref(t, site)
FinishProbe == \E t \in Threads : Initialized(t)
Wake == \E t \in Threads : Woken(t)

NextOnce == Read \/ FinishProbe \/ Wake

SpecOnce == InitOnce /\ [][NextOnce]_vars

\* C11: the smoothing probe is executed at most once, however the threads
\* interleave; every value a thread has read from FONT_SMOOTHING_MODE, at any
\* site, is the value the one execution stored; and once stored the value is
\* never modified nor computed again.
C11_ProbedOnce ==
    [][/\ probe'.runs <= 1
       /\ probe'.done <=> probe'.runs = 1
       /\ \A t \in Threads : \A i \in DOMAIN threads'[t].seen :
             /\ probe'.done
             /\ threads'[t].seen[i] = probe'.mode
       /\ probe.done
            => /\ probe'.done
               /\ probe'.mode = probe.mode
               /\ probe'.runs = probe.runs]_vars

\* Two threads have each read the value twice at different sites, one of them
\* after waiting for the other's initializer, which found subpixel antialiasing.
C11_Witness ==
    /\ threads # NoThreads
    /\ probe.runs = 1
    /\ probe.mode = Some("Subpixel")
    /\ \A t \in Threads : Len(threads[t].seen) = MaxReads
    /\ \E t \in Threads : threads[t].waited
    /\ \E t, u \in Threads : threads[t].site # threads[u].site

----------------------------------------------------------------------------
(* FontContext::prepare_font on its own: SpecPrepare *)

\* Applications of prepare_font to one instance.
MaxPrepares == 2

\* FontRenderMode::limit_by: the lesser amount of antialiasing of the two.
limit_by(self, other) ==
    IF self = "Subpixel" \/ other = "Mono" THEN other ELSE self

\* FontInstance::disable_subpixel_position
disable_subpixel_position(font) ==
    [font EXCEPT !.flags = @ \ {"SUBPIXEL_POSITION"}]

\* ColorLut::luminance_color: the gray of the color's luminance.
luminance_color(color) ==
    LET lum == (color.r * 2126 + color.g * 7152 + color.b * 722) \div 10000
    IN  ColorU_new(lum, lum, lum, color.a)

\* ColorU::quantize: each channel keeps its high bits.
quantize(color) ==
    LET high(c) == (c \div 16) * 16
    IN  ColorU_new(high(color.r), high(color.g), high(color.b), high(color.a))

\* The render mode limited, the FONT_SMOOTHING flag set whatever the mode found.
SanitizedKeepingSmoothing(font, mode) ==
    IF "FONT_SMOOTHING" \in font.flags \/ font.render_mode = "Subpixel"
    THEN [font EXCEPT !.render_mode = limit_by(@, IF mode # None THEN mode[1]
                                                  ELSE "Alpha"),
                      !.flags = @ \cup {"FONT_SMOOTHING"}]
    ELSE font

\* The font with its render mode limited by what font smoothing supports.
Sanitized(font, mode) ==
    IF "FONT_SMOOTHING" \in font.flags \/ font.render_mode = "Subpixel"
    THEN IF mode # None
         THEN [font EXCEPT !.render_mode = limit_by(@, mode[1]),
                           !.flags = @ \cup {"FONT_SMOOTHING"}]
         ELSE [font EXCEPT !.render_mode = limit_by(@, "Alpha"),
                           !.flags = @ \ {"FONT_SMOOTHING"}]
    ELSE font

\* prepare_font choosing the color by the render mode the instance came with.
prepare_font_stale_mode(font, mode) ==
    LET f == Sanitized(font, mode)
    IN  IF is_bitmap_font(font)
        THEN disable_subpixel_position([font EXCEPT !.render_mode = "Mono"])
        ELSE IF font.render_mode = "Mono"
        THEN disable_subpixel_position([f EXCEPT !.color = WHITE])
        ELSE IF font.render_mode = "Alpha"
        THEN [f EXCEPT !.color = IF "FONT_SMOOTHING" \in f.flags
                                  THEN quantize(luminance_color(@)) ELSE WHITE]
        ELSE [f EXCEPT !.color = quantize(@)]

\* FontContext::prepare_font, mode being the value of FONT_SMOOTHING_MODE
prepare_font(font, mode) ==
    LET f == Sanitized(font, mode)
    IN  IF is_bitmap_font(font)
        THEN disable_subpixel_position([font EXCEPT !.render_mode = "Mono"])
        ELSE IF f.render_mode = "Mono"
        THEN disable_subpixel_position([f EXCEPT !.color = WHITE])
        ELSE IF f.render_mode = "Alpha"
        THEN [f EXCEPT !.color = IF "FONT_SMOOTHING" \in f.flags
                                  THEN quantize(luminance_color(@)) ELSE WHITE]
        ELSE [f EXCEPT !.color = quantize(@)]

RenderModes == {"Mono", "Alpha", "Subpixel"}
SmoothingModes == {None, Some("Alpha"), Some("Subpixel")}
PreparedFlags == SUBSET {"EMBEDDED_BITMAPS", "FONT_SMOOTHING", "SUBPIXEL_POSITION"}
Colors == {TextColor, WHITE, ColorU_new(10, 250, 33, 128)}

\* The process has probed its font smoothing and found this mode.
Probed(mode) == [NoProbe EXCEPT !.mode = mode]

InitPrepare ==
    /\ cg_fonts = <<>>
    /\ ct_fonts = <<>>
    /\ graphics_context = GraphicsContext_new
    /\ requested = NothingAsked
    /\ threads = NoThreads
    /\ \E mode \in SmoothingModes : probe = Probed(mode)
    /\ \E flags \in PreparedFlags, render_mode \in RenderModes, color \in Colors :
          LET font == [Instance(1, Identity, <<>>, flags) EXCEPT
                         !.render_mode = render_mode, !.color = color]
          IN  ret = [Ret("input", 1, "return") EXCEPT
                       !.args = <<font, 0, font>>, !.value = Some(font)]

\* FontContext::prepare_font(&mut font) on the instance as the last call left it:
\* the arguments record the instance before the call, the number of calls and
\* the instance the caller made.
PrepareFont ==
    /\ ret.args[2] < MaxPrepares
    /\ ret' = [ret EXCEPT !.op = "prepare_font",
                          !.args = <<ret.value[1], ret.args[2] + 1, ret.args[3]>>,
                          !.value = Some(prepare_font(ret.value[1], probe.mode))]
    /\ UNCHANGED <<cg_fonts, ct_fonts, graphics_context, requested, probe, threads>>

SpecPrepare == InitPrepare /\ [][PrepareFont]_vars

\* C12: a second (and any later) prepare_font leaves the render mode, the
\* FONT_SMOOTHING flag, the subpixel position flag and the color of the
\* instance as the first one left them, for bitmap and other instances, every
\* render mode, flag value and font smoothing mode of the process.
C12_PrepareFontIdempotent ==
    (ret.op = "prepare_font" /\ ret.args[2] >= 2)
        => LET before == ret.args[1]
               after == ret.value[1]
           IN  /\ after.render_mode = before.render_mode
               /\ ("FONT_SMOOTHING" \in after.flags) <=> ("FONT_SMOOTHING" \in before.flags)
               /\ ("SUBPIXEL_POSITION" \in after.flags)
                      <=> ("SUBPIXEL_POSITION" \in before.flags)
               /\ after.color = before.color
               /\ after = before

\* The second prepare_font of a subpixel instance that the first one had turned
\* into a grayscale instance with a luminance color, the host dilating only.
C12_Witness ==
    /\ ret.op = "prepare_font"
    /\ ret.args[2] = 2
    /\ probe.mode = Some("Alpha")
    /\ ret.args[3].render_mode = "Subpixel"
    /\ "FONT_SMOOTHING" \notin ret.args[3].flags
    /\ ret.args[1].render_mode = "Alpha"
    /\ "FONT_SMOOTHING" \in ret.args[1].flags
    /\ ret.args[1].color # ret.args[3].color
    /\ ret.value[1] = ret.args[1]

----------------------------------------------------------------------------
(* Malformed axes in new_ct_font_with_variations (SpecVariations) *)

\* A value with the axis's tag was supplied.
Supplied(axis, variations) ==
    \E i \in DOMAIN variations : variations[i].tag = axis.tag[1]

\* The loop returns the unvaried font at this axis: it is no dictionary, it has
\* no readable tag, or a value was supplied for it and its name, minimum,
\* maximum or default cannot be read.
StopsAt(axis, variations) ==
    \/ ~axis.dict
    \/ axis.tag = None
    \/ /\ Supplied(axis, variations)
       /\ (axis.name = None \/ axis.min = None \/ axis.max = None \/ axis.def = None)

\* The axes array handed to a new_ct_font_with_variations call.
AxesGiven == IF ret.args[1] = None THEN <<>> ELSE ret.args[1][1]

----------------------------------------------------------------------------
(* SpecDraw: what rasterize_glyph asks of CoreGraphics.  One font is registered
   and glyphs are rasterized for instances of every render mode, with and
   without FONT_SMOOTHING, with embedded bitmaps, with a flip and with synthetic
   bold; FONT_SMOOTHING_MODE has any of its three values. *)

DrawInstance(render_mode, flags, transform, color) ==
    [Instance(1, transform, <<>>, flags) EXCEPT !.render_mode = render_mode,
                                               !.color = color]

Translucent == ColorU_new(10, 250, 33, 128)

DrawInstances ==
    {DrawInstance(m, f, FontTransform(U, 0, 0, U), TextColor) :
        m \in RenderModes, f \in {{}, {"FONT_SMOOTHING"}}}
    \cup {DrawInstance("Subpixel", {"EMBEDDED_BITMAPS"},
                       FontTransform(U, 0, 0, U), Translucent),
          DrawInstance("Alpha", {"EMBEDDED_BITMAPS", "FONT_SMOOTHING"},
                       FontTransform(U, 0, 0, U), TextColor),
          DrawInstance("Alpha", {"SYNTHETIC_BOLD"},
                       FontTransform(2 * U, 0, 0, 2 * U), TextColor),
          DrawInstance("Subpixel", {"SYNTHETIC_BOLD", "FONT_SMOOTHING"},
                       FontTransform(U, 0, 0, U), Translucent),
          DrawInstance("Alpha", {"FLIP_X"}, FontTransform(U, 0, 0, U), TextColor)}

DrawGlyphKeys == {GlyphKey(1, <<0, 0>>), GlyphKey(2, <<0, 0>>), GlyphKey(9, <<0, 0>>)}

InitDraw ==
    /\ cg_fonts = <<>>
    /\ ct_fonts = <<>>
    /\ graphics_context = GraphicsContext_new
    /\ requested = NothingAsked
    /\ ret = NotStarted
    /\ probe \in {Probed(mode) : mode \in SmoothingModes}
    /\ threads = NoThreads

Draw ==
    /\ Running
    /\ \E i \in DrawInstances, g \in DrawGlyphKeys : rasterize_glyph(i, g)

NextDraw == RegisterFont \/ Draw

SpecDraw == InitDraw /\ [][NextDraw]_vars

----------------------------------------------------------------------------
(* C14 *)

\* The place of the first call of a name in a sequence of calls (0: none).
FirstCall(calls, name) ==
    LET hits == {i \in DOMAIN calls : calls[i][1] = name}
    IN  IF hits = {} THEN 0 ELSE CHOOSE i \in hits : \A j \in hits : i <= j

\* The calls made before the first call of a name.
Before(calls, name) == SubSeq(calls, 1, FirstCall(calls, name) - 1)

----------------------------------------------------------------------------
(* C15 *)

\* The places of a step in the post-processing of a glyph.
StepsOf(post, op) == {i \in DOMAIN post : post[i].op = op}

\* C15: the pixels of a bitmap glyph are returned as they were read back; those
\* of a vector glyph are inverted exactly once, B, G and R each to 255 minus its
\* value and alpha to the inverted green; they are converted to linear space
\* before the inversion, and gamma-corrected after it, exactly when the glyph
\* was drawn with smoothing on, and otherwise neither; each step works on what
\* the step before it left.
C15_PostProcessingInOrder ==
    (ret.op = "rasterize_glyph" /\ ret.outcome = "Ok") =>
        LET font == ret.args[1]
            bytes == ret.value[1].bytes
            post == bytes.post
            smooth == LastSet(Before(ret.calls, "draw_glyphs"),
                              "set_should_smooth_fonts") = Some(TRUE)
            linear == StepsOf(post, "coregraphics_convert_to_linear")
            invert == StepsOf(post, "invert")
            gamma == StepsOf(post, "gamma_correct_pixels")
        IN  IF "EMBEDDED_BITMAPS" \in font.flags
            THEN post = <<>> /\ bytes.pixel = bytes.read
            ELSE /\ DOMAIN post = linear \cup invert \cup gamma
                 /\ Cardinality(invert) = 1
                 /\ Cardinality(linear) = (IF smooth THEN 1 ELSE 0)
                 /\ Cardinality(gamma) = (IF smooth THEN 1 ELSE 0)
                 /\ \A i \in linear, j \in invert : i < j
                 /\ \A i \in gamma, j \in invert : j < i
                 /\ \A j \in invert :
                        /\ post[j].after.b = 255 - post[j].before.b
                        /\ post[j].after.g = 255 - post[j].before.g
                        /\ post[j].after.r = 255 - post[j].before.r
                        /\ post[j].after.a = post[j].after.g
                 /\ post[1].before = bytes.read
                 /\ \A i \in DOMAIN post :
                        i > 1 => post[i].before = post[i - 1].after
                 /\ bytes.pixel = post[Len(post)].after

\* A smoothed vector glyph whose pixel read back was not white went through the
\* three steps, each changing it.
C15_Witness ==
    /\ ret.op = "rasterize_glyph"
    /\ ret.outcome = "Ok"
    /\ Len(ret.value[1].bytes.post) = 3
    /\ ret.value[1].bytes.read = Pixel(40, 90, 160, 255)
    /\ \A i \in 1 .. 3 :
           ret.value[1].bytes.post[i].before # ret.value[1].bytes.post[i].after


----------------------------------------------------------------------------
(* SpecGamma: gamma_correct_pixels on one pixel, for every render mode, a few
   text colors and every value of FONT_SMOOTHING_MODE. *)

GammaPixels == ReadPixels \cup {Invert(pixel) : pixel \in ReadPixels}
GammaColors == Colors \cup {ColorU_new(3, 5, 7, 255)}

InitGamma ==
    /\ cg_fonts = <<>>
    /\ ct_fonts = <<>>
    /\ graphics_context = GraphicsContext_new
    /\ requested = NothingAsked
    /\ \E pixel \in GammaPixels, render_mode \in RenderModes, color \in GammaColors :
           ret = [NotStarted EXCEPT !.args = <<pixel, render_mode, color>>]
    /\ probe \in {Probed(mode) : mode \in SmoothingModes}
    /\ threads = NoThreads

GammaCorrect ==
    /\ ret.op = "new"
    /\ ret' = [Ret("gamma_correct_pixels", 0, "return") EXCEPT
                 !.args = ret.args,
                 !.value = Some(gamma_correct_pixels(ret.args[1], ret.args[2],
                                                     ret.args[3], probe.mode))]
    /\ UNCHANGED <<cg_fonts, ct_fonts, graphics_context, requested, probe, threads>>

SpecGamma == InitGamma /\ [][GammaCorrect]_vars

----------------------------------------------------------------------------
(* C16 *)

\* A color with each of R, G and B reduced by one quarter, and halved.
LessAQuarter(color) ==
    ColorU_new(color.r - color.r \div 4, color.g - color.g \div 4,
               color.b - color.b \div 4, color.a)
Halved(color) ==
    ColorU_new(color.r \div 2, color.g \div 2, color.b \div 2, color.a)

\* A pixel was pre-blended with a lookup against a color and is otherwise as it was.
Blended(after, before, blend, color) ==
    after = [before EXCEPT !.blend = blend, !.against = Some(color)]

\* C16 as stated: the smoothed color follows the render mode being corrected, the
\* text color less a quarter for Subpixel and halved for Alpha; Alpha pixels are
\* pre-blended with the grayscale lookup, Subpixel pixels per channel, Mono
\* pixels are left untouched.
C16_SmoothedByRenderMode ==
    ret.op = "gamma_correct_pixels" =>
        LET pixel == ret.args[1]
            render_mode == ret.args[2]
            color == ret.args[3]
        IN  CASE render_mode = "Subpixel" ->
                    Blended(ret.value[1], pixel, "preblend", LessAQuarter(color))
              [] render_mode = "Alpha" ->
                    Blended(ret.value[1], pixel, "preblend_grayscale", Halved(color))
              [] OTHER -> ret.value[1] = pixel

\* C16, amended: the smoothed color follows FONT_SMOOTHING_MODE, the text color
\* less a quarter when it is Subpixel, halved when it is Alpha and unchanged when
\* it is None; the render mode chooses the lookup only: Alpha pixels are
\* pre-blended with the grayscale lookup, Subpixel pixels per channel, Mono
\* pixels are left untouched.
C16_SmoothedByProbedMode ==
    ret.op = "gamma_correct_pixels" =>
        LET pixel == ret.args[1]
            render_mode == ret.args[2]
            color == ret.args[3]
            smooth_color == CASE probe.mode = Some("Subpixel") -> LessAQuarter(color)
                              [] probe.mode = Some("Alpha") -> Halved(color)
                              [] probe.mode = None -> color
        IN  CASE render_mode = "Subpixel" ->
                    Blended(ret.value[1], pixel, "preblend", smooth_color)
              [] render_mode = "Alpha" ->
                    Blended(ret.value[1], pixel, "preblend_grayscale", smooth_color)
              [] OTHER -> ret.value[1] = pixel

\* An Alpha pixel was corrected where FONT_SMOOTHING_MODE is Subpixel, in a color
\* whose quarter and half round differently.
C16_Witness ==
    /\ ret.op = "gamma_correct_pixels"
    /\ ret.args[2] = "Alpha"
    /\ probe.mode = Some("Subpixel")
    /\ ret.args[3] = ColorU_new(3, 5, 7, 255)
    /\ ret.value[1].against = Some(ColorU_new(3, 4, 6, 255))


----------------------------------------------------------------------------
(* C17 *)

\* The plan of the rasterization that returned, from the font the cache holds.
PlanOfRet ==
    raster_plan(ret.args[1], ret.args[2], ct_fonts[InstanceEntry(ret.args[1])])

\* C17: a glyph that was rasterized was drawn by 1 + extra_strikes calls of
\* draw_glyphs, the last calls made and all after the background fill, each of
\* the one requested glyph at one origin: the first at the draw origin, the
\* i-th after it pixel_step * i further along x at the same y.
C17_OneDrawPerStrike ==
    (ret.op = "rasterize_glyph" /\ ret.outcome = "Ok") =>
        LET plan == PlanOfRet
            calls == ret.calls
            draws == {i \in DOMAIN calls : calls[i][1] = "draw_glyphs"}
            first == FirstCall(calls, "draw_glyphs")
            origin == DrawOrigin(plan)
        IN  /\ Cardinality(draws) = 1 + plan.extra_strikes
            /\ draws = first .. Len(calls)
            /\ FirstCall(calls, "fill_rect") \in 1 .. first - 1
            /\ \A i \in draws :
                   /\ calls[i][2] = <<CGGlyphOf(ret.args[2])>>
                   /\ calls[i][3] = << [x |-> origin.x + (i - first) * plan.pixel_step,
                                        y |-> origin.y] >>

\* A bold glyph at twice the scale was drawn with two extra strikes.
C17_Witness ==
    /\ ret.op = "rasterize_glyph"
    /\ ret.outcome = "Ok"
    /\ "SYNTHETIC_BOLD" \in ret.args[1].flags
    /\ PlanOfRet.extra_strikes = 2
    /\ PlanOfRet.pixel_step > 0
    /\ Cardinality({i \in DOMAIN ret.calls : ret.calls[i][1] = "draw_glyphs"}) = 3


----------------------------------------------------------------------------
(* C18 *)

\* The rows and columns of a surface's buffer that fill_rect writes: CoreGraphics
\* counts y from the bottom row of the surface, the buffer from the top.
FilledRegion(surface, rect) ==
    [first_row |-> surface.height - (rect.y + rect.height), rows |-> rect.height,
     first_col |-> rect.x, cols |-> rect.width]

\* The attributes of a drawing state that decide how a glyph is drawn.
DrawingConfiguration(state) ==
    [attribute \in {"antialias", "smooth", "blend_mode", "fill_color", "text_matrix"}
        |-> state[attribute]]

\* C18: when a glyph was rasterized, the antialiasing, the smoothing, the blend
\* mode, the fill color and the text matrix were each set before the first draw,
\* the text matrix to the request's transform or to the identity; the surface
\* drew with the configuration a surface never used before would have drawn
\* with; the background was filled in Copy mode; and the rows and columns read
\* back lie inside the surface and are the rows and columns that fill wrote.
C18_NothingLeftFromEarlierCalls ==
    (ret.op = "rasterize_glyph" /\ ret.outcome = "Ok") =>
        LET plan == PlanOfRet
            surface == CachedContext(graphics_context, plan.glyph_type)
            drawing == Before(ret.calls, "draw_glyphs")
            filling == Before(ret.calls, "fill_rect")
            rect == ret.calls[FirstCall(ret.calls, "fill_rect")][2]
            region == ret.value[1].bytes.region
        IN  /\ \A setter \in {"set_should_antialias", "set_should_smooth_fonts",
                              "set_blend_mode", "set_rgb_fill_color",
                              "set_text_matrix"} :
                   LastSet(drawing, setter) # None
            /\ LastSet(drawing, "set_text_matrix")
                   = Some(IF plan.transform # None THEN plan.transform[1]
                          ELSE [a |-> U, b |-> 0, c |-> 0, d |-> U,
                                tx |-> 0, ty |-> 0])
            /\ LastSet(drawing, "set_blend_mode") = Some("Normal")
            /\ surface.state # None
            /\ DrawingConfiguration(surface.state[1])
                   = DrawingConfiguration(StateAfter(UnsetState, ret.calls))
            /\ LastSet(filling, "set_blend_mode") = Some("Copy")
            /\ region = FilledRegion(surface, rect)
            /\ region.first_row >= 0
            /\ region.first_col >= 0
            /\ region.rows > 0
            /\ region.cols > 0
            /\ region.first_row + region.rows <= surface.height
            /\ region.first_col + region.cols <= surface.width

\* A glyph with no transform was rasterized on a surface that an earlier, larger
\* glyph had grown and drawn on: the rows and columns read are a part of it.
C18_Witness ==
    /\ ret.op = "rasterize_glyph"
    /\ ret.outcome = "Ok"
    /\ PlanOfRet.transform = None
    /\ PlanOfRet.glyph_type = "Vector"
    /\ graphics_context.vector_context.width > INITIAL_CG_CONTEXT_SIDE_LENGTH
    /\ next_power_of_two(ret.value[1].width) < graphics_context.vector_context.width
    /\ ret.value[1].bytes.region.first_row > 0


----------------------------------------------------------------------------
(* C19 *)

\* Every entry of the sized cache is of a font key that has a base font.
CachedKeysRegistered(cg, ct) == \A e \in DOMAIN ct : e[1] \in DOMAIN cg

\* The calls that look a sized font up.
LookupCalls == {"get_ct_font", "get_glyph_index", "get_glyph_dimensions",
                "rasterize_glyph"}

\* C19: before and after every call each entry of ct_fonts has a font key that
\* cg_fonts holds; and a call that looks up the sized font of a key cg_fonts
\* does not hold gets none (get_ct_font, get_glyph_index and
\* get_glyph_dimensions return None, rasterize_glyph LoadFailed), instantiates
\* none and leaves ct_fonts as it was.
C19_CachedKeysAreRegistered ==
    [][/\ CachedKeysRegistered(cg_fonts, ct_fonts)
       /\ CachedKeysRegistered(cg_fonts', ct_fonts')
       /\ (ret'.op \in LookupCalls /\ ret'.font_key \notin DOMAIN cg_fonts)
            => /\ ct_fonts' = ct_fonts
               /\ ret'.made = 0
               /\ ret'.value = None
               /\ ret'.op = "rasterize_glyph" => ret'.outcome = "LoadFailed"]_vars

\* A glyph was asked of a key that has no base font, while the sized fonts of
\* another key stayed cached.
C19_Witness ==
    /\ ret.op \in {"get_glyph_dimensions", "rasterize_glyph"}
    /\ ret.font_key \notin DOMAIN cg_fonts
    /\ ret.value = None
    /\ DOMAIN ct_fonts # {}
    /\ DOMAIN cg_fonts # {}


----------------------------------------------------------------------------
(* SpecMeasure: get_glyph_dimensions and rasterize_glyph asked about the same
   glyphs: of a registered font plain, with embedded bitmaps, bold at one and at
   two times the scale and flipped with subpixel positions, and of a font that
   is not registered. *)

MeasureInstances ==
    {Instance(1, FontTransform(U, 0, 0, U), <<>>, f) : f \in RasterFlags}
        \cup {Instance(1, FontTransform(2 * U, 0, 0, 2 * U), <<>>, {"SYNTHETIC_BOLD"}),
              Instance(2, FontTransform(U, 0, 0, U), <<>>, {})}

MeasureGlyphKeys ==
    {GlyphKey(i, <<0, 0>>) : i \in {1, 3, 9}} \cup {GlyphKey(1, <<32, 0>>)}

Measure ==
    /\ Running
    /\ \E i \in MeasureInstances, g \in MeasureGlyphKeys : get_glyph_dimensions(i, g)

MeasuredRasterize ==
    /\ Running
    /\ \E i \in MeasureInstances, g \in MeasureGlyphKeys : rasterize_glyph(i, g)

NextMeasure == RegisterFont \/ Measure \/ MeasuredRasterize

SpecMeasure == Init /\ [][NextMeasure]_vars

----------------------------------------------------------------------------
(* C20 *)

\* What get_glyph_dimensions returned and what rasterize_glyph returned agree.
Agree(dimensions, rasterized) ==
    /\ dimensions.value = None <=> rasterized.outcome = "LoadFailed"
    /\ dimensions.value # None =>
           /\ rasterized.outcome = "Ok"
           /\ dimensions.value[1].left = rasterized.value[1].left
           /\ dimensions.value[1].top = rasterized.value[1].top
           /\ dimensions.value[1].width = rasterized.value[1].width
           /\ dimensions.value[1].height = rasterized.value[1].height

\* C20: get_glyph_dimensions and rasterize_glyph called one after the other, in
\* either order, with the same font instance and glyph key agree:
\* get_glyph_dimensions returns None exactly when rasterize_glyph returns
\* LoadFailed, and otherwise the same left, top, width and height; and whenever
\* either has resolved its font, the transform, the pen offsets and the
\* extra-strike width the two would measure the glyph with are the same.
C20_DimensionsAgreeWithRasterized ==
    [][/\ (/\ ret.op = "get_glyph_dimensions"
           /\ ret'.op = "rasterize_glyph"
           /\ ret'.args = ret.args) => Agree(ret, ret')
       /\ (/\ ret.op = "rasterize_glyph"
           /\ ret'.op = "get_glyph_dimensions"
           /\ ret'.args = ret.args) => Agree(ret', ret)
       /\ (/\ ret'.op \in {"get_glyph_dimensions", "rasterize_glyph"}
           /\ InstanceEntry(ret'.args[1]) \in DOMAIN ct_fonts')
            => LET font == ret'.args[1]
                   ct_font == ct_fonts'[InstanceEntry(font)]
                   measured == dimensions_plan(font, ret'.args[2], ct_font)
                   drawn == raster_plan(font, ret'.args[2], ct_font)
               IN  /\ measured.transform = drawn.transform
                   /\ measured.x_offset = drawn.x_offset
                   /\ measured.y_offset = drawn.y_offset
                   /\ measured.extra_strikes * measured.pixel_step
                          = drawn.extra_strikes * drawn.pixel_step
                   /\ measured.metrics = drawn.metrics]_vars

\* A bold glyph two strikes wider was rasterized with the sized font an earlier
\* call had cached.
C20_Witness ==
    /\ ret.op = "rasterize_glyph"
    /\ ret.outcome = "Ok"
    /\ "SYNTHETIC_BOLD" \in ret.args[1].flags
    /\ PlanOfRet.extra_strikes * PlanOfRet.pixel_step >= 2 * U
    /\ ret.made = 0


----------------------------------------------------------------------------
(* SpecPrepared: instances as callers make them go through prepare_font and are
   then rasterized, FONT_SMOOTHING_MODE having any of its three values. *)

UnpreparedInstances ==
    {[Instance(1, Identity, <<>>, flags) EXCEPT !.render_mode = render_mode,
                                               !.color = color] :
        flags \in PreparedFlags, render_mode \in RenderModes,
        color \in {TextColor, Translucent}}

PreparedGlyphKeys == {GlyphKey(1, <<0, 0>>), GlyphKey(9, <<0, 0>>)}

\* FontContext::prepare_font(&mut font) on an instance a caller made.
Prepare ==
    /\ Running
    /\ \E font \in UnpreparedInstances :
           ret' = [Ret("prepare_font", font.font_key, "return") EXCEPT
                     !.args = <<font>>,
                     !.value = Some(prepare_font(font, probe.mode))]
    /\ UNCHANGED <<cg_fonts, ct_fonts, graphics_context, requested, probe, threads>>

\* rasterize_glyph with the instance prepare_font left.
RasterizePrepared ==
    /\ Running
    /\ ret.op = "prepare_font"
    /\ \E g \in PreparedGlyphKeys : rasterize_glyph(ret.value[1], g)

NextPrepared == RegisterFont \/ Prepare \/ RasterizePrepared

SpecPrepared == InitDraw /\ [][NextPrepared]_vars

----------------------------------------------------------------------------
(* C21 *)

\* C21: an instance without embedded bitmaps that prepare_font returned has the
\* render mode Subpixel only where FONT_SMOOTHING_MODE is Subpixel, and has no
\* FONT_SMOOTHING flag where FONT_SMOOTHING_MODE is None; and where
\* FONT_SMOOTHING_MODE is None a glyph rasterized for a prepared instance was
\* drawn with smoothing off and was neither converted to linear space nor
\* gamma-corrected.
C21_NoSmoothingWithoutSmoothingMode ==
    /\ (ret.op = "prepare_font" /\ "EMBEDDED_BITMAPS" \notin ret.value[1].flags)
         => /\ ret.value[1].render_mode = "Subpixel"
                  => probe.mode = Some("Subpixel")
            /\ probe.mode = None => "FONT_SMOOTHING" \notin ret.value[1].flags
    /\ (ret.op = "rasterize_glyph" /\ ret.outcome = "Ok" /\ probe.mode = None)
         => /\ LastSet(Before(ret.calls, "draw_glyphs"), "set_should_smooth_fonts")
                  = Some(FALSE)
            /\ StepsOf(ret.value[1].bytes.post, "coregraphics_convert_to_linear") = {}
            /\ StepsOf(ret.value[1].bytes.post, "gamma_correct_pixels") = {}

\* Where FONT_SMOOTHING_MODE is None a vector glyph was rasterized in grayscale
\* for a prepared instance, its pixels inverted only.
C21_Witness ==
    /\ ret.op = "rasterize_glyph"
    /\ ret.outcome = "Ok"
    /\ probe.mode = None
    /\ ret.args[1].render_mode = "Alpha"
    /\ "EMBEDDED_BITMAPS" \notin ret.args[1].flags
    /\ Len(ret.value[1].bytes.post) = 1
    /\ ret.value[1].bytes.post[1].op = "invert"


----------------------------------------------------------------------------
(* C22 *)

\* The entry get_glyph_index caches the font of a key under.
IndexEntry(font_key) == EntryOf(font_key, 16, <<>>)

\* C22: get_glyph_index of a key with no base font returns None and leaves the
\* cache as it was; of a key with one it returns what the font cached at 16 px
\* with no variations has for the character modulo 2^16, so for a character
\* above U+FFFF the glyph of the truncated code unit, and leaves that font
\* cached; and the entry of a key at 16 px with no variations leaves the cache
\* only by delete_font of the key or by delete_font_instance of an instance with
\* that key, that size and no variations.
C22_GlyphIndexOfTruncatedCharacter ==
    [][/\ ret'.op = "get_glyph_index" =>
            LET e == IndexEntry(ret'.font_key)
                ch == ret'.args[1]
            IN  /\ ret'.font_key \notin DOMAIN cg_fonts
                     => ret'.value = None /\ ct_fonts' = ct_fonts
                /\ ret'.font_key \in DOMAIN cg_fonts
                     => /\ e \in DOMAIN ct_fonts'
                        /\ ret'.value = GlyphForCharacter(ct_fonts'[e], ch % 65536)
                        /\ ch = 65536 + 88 => ret'.value = Some(1)
                        /\ \A d \in DOMAIN ct_fonts' \ DOMAIN ct_fonts : d = e
       /\ \A k \in FontKeys :
            (IndexEntry(k) \in DOMAIN ct_fonts /\ IndexEntry(k) \notin DOMAIN ct_fonts')
                => \/ ret'.op = "delete_font" /\ ret'.font_key = k
                   \/ /\ ret'.op = "delete_font_instance"
                      /\ InstanceEntry(ret'.args[1]) = IndexEntry(k)]_vars

\* The glyph of a character above U+FFFF was found under its low 16 bits, and the
\* font it was looked up in is cached.
C22_Witness ==
    /\ ret.op = "get_glyph_index"
    /\ ret.args[1] > 65535
    /\ ret.value = Some(1)
    /\ ret.made = 1
    /\ IndexEntry(ret.font_key) \in DOMAIN ct_fonts

====
